---- MODULE Spec2Model ----
(***************************************************************************)
(* Scheduled-post publishing pipeline of SmartThreads: the post rows, the  *)
(* Bull publish queue (job identity = post id), the cron poller, the       *)
(* publish worker and the post-management use cases.  Every handler is an  *)
(* async function; it is modelled as one action per stretch of code        *)
(* between two awaited I/O calls, so that handlers interleave exactly at   *)
(* their await points.  repository.save(entity) writes the whole entity    *)
(* the caller holds (TypeORM diffs the in-memory entity against the row),  *)
(* so a handler that read a row earlier writes its own copy back.          *)
(***************************************************************************)
EXTENDS Integers, Sequences, FiniteSets, TLC

(* ---------------- bounds of the model ---------------- *)
MaxPosts == 1
MaxNow == 2
MaxDelIds == 2
MaxList == 6
MaxText == 2
MaxIvs == 1

(* ---------------- program constants ---------------- *)
MaxAttempts == 3
QueueAttempts == 3
BatchSize == 10
MinLead == 1
RetentionDays == 30
DeleteBatchSize == 5
DeleteRetryLimit == 3
DeleteAttempts == 3
IvBytes == 16
TagBytes == 16

\* token monitor: accounts, clock ticks and sweeps
MaxAccounts == 2
MaxClock == 1
MaxSweeps == 2
\* the clock of the token monitor counts half days
DayLength == 2
\* the expiry sweep looks 7 days ahead and warns from 3 days on
WindowDays == 7
WarnDays == 3

Null == -1

\* the keys scrypt derives for CryptoHelper and for CryptoService
HelperKey == 91
MasterKey == 173

\* tokens of the JSON envelope: a brace, the names of its fields
\* (abbreviated: enc, iv, tag, key) and the key identifier (ldk)
Json == [brace |-> <<123>>, encrypted |-> <<101, 110, 99>>, iv |-> <<105, 118>>,
         tag |-> <<116, 97, 103>>, keyId |-> <<107, 101, 121>>,
         localDevKey |-> <<108, 100, 107>>]

\* the identities createPost hands out and requests name; the table has room
\* for one row more
PostIds == 1..MaxPosts
TableSize == MaxPosts + 1
RowIds == 1..TableSize
Times == 0..MaxNow

PENDING == "pending"
SCHEDULED == "scheduled"
PROCESSING == "processing"
COMPLETED == "completed"
FAILED == "failed"
CANCELLED == "cancelled"

IMMEDIATE == "immediate"
TIMED == "scheduled-mode"

NoRow ==
  [exists |-> FALSE, status |-> PENDING, attempts |-> 0,
   externalPostId |-> Null, publishedAt |-> Null, scheduledAt |-> 0,
   scheduleMode |-> IMMEDIATE, lastError |-> "none",
   errorDetails |-> [attemptNumber |-> Null, error |-> "none", timestamp |-> Null],
   text |-> "none", mediaRefs |-> "none"]

VARIABLES
  posts,      \* scheduled_posts table: post id -> row
  queue,      \* the Bull publish queue: sequence of jobs
  acct,       \* the owning account: "none", "nocred", "linked", "gone"
  now,        \* the clock, in units of the minimal scheduling lead
  nextId,     \* next post identity to hand out
  poller,     \* SchedulerService.processPendingPosts in progress
  worker,     \* PostPublisherProcessor.handlePublish in progress
  api,        \* the post-management request in progress
  writer,     \* history: who saved each row last
  cache,      \* published_post_cache table: the identities that have a row
  bulk,       \* PostDeletionProcessor.handleBulkDelete in progress
  deleter,    \* a "delete" job of the deletion queue and its handleDelete run
  vault,      \* a value sealed by the vault, on its way to being opened
  instance,   \* cryptoServiceInstance of the column transformer is set
  cred,       \* credentials table: the stored columns of the credential
  accounts,   \* accounts table with each account's credential: id -> row
  audit,      \* audit_logs table: the entries the token monitor wrote
  validator,  \* TokenValidatorWorker: its clock and its two sweeps in progress
  executions  \* history: the runs of handlePublish started for each post

vars == <<posts, queue, acct, now, nextId, poller, worker, api, writer,
          cache, bulk, deleter, vault, instance, cred, accounts, audit, validator,
          executions>>

\* the publishing pipeline, and the state of the other components; the
\* history of executions is left alone by whatever leaves either alone
pipeline == <<posts, queue, acct, now, nextId, poller, worker, api, writer,
              executions>>
deletion == <<cache, bulk, deleter>>
sealing == <<vault>>
credentials == <<instance, cred>>
monitoring == <<accounts, audit, validator>>
side == <<deletion, sealing, credentials, monitoring, executions>>

(* ---------------- the queue ---------------- *)
HasJob(q, id) == \E i \in DOMAIN q : q[i].id = id

\* the text and media references a publish job is given: those of the
\* entity the caller holds
PublishData(row) == [text |-> row.text, mediaRefs |-> row.mediaRefs]

NewJob(id, attemptNumber, delay, t, data) ==
  [id |-> id, attemptNumber |-> attemptNumber, attemptsMade |-> 0,
   state |-> IF delay > 0 THEN "delayed" ELSE "waiting",
   runAt |-> IF delay > 0 THEN t + delay ELSE 0,
   text |-> data.text, mediaRefs |-> data.mediaRefs]

addWithoutJobId(q, id, attemptNumber, delay, t, data) ==
  Append(q, NewJob(id, attemptNumber, delay, t, data))

addUnlessQueued(q, id, attemptNumber, delay, t, data) ==
  IF \E i \in DOMAIN q : q[i].id = id /\ q[i].state \in {"waiting", "delayed"}
    THEN q ELSE Append(q, NewJob(id, attemptNumber, delay, t, data))

\* queue.add with jobId = scheduledPostId: Bull ignores an add whose job id
\* is already present in the queue, in whatever state the job is.
addPublishJob(q, id, attemptNumber, delay, t, data) ==
  IF HasJob(q, id) THEN q ELSE Append(q, NewJob(id, attemptNumber, delay, t, data))

\* job.remove() raises when the job is locked by a worker.
RemoveThrows(q, id) == \E i \in DOMAIN q : q[i].id = id /\ q[i].state = "active"

removeJob(q, id) == SelectSeq(q, LAMBDA j : j.id # id)

Runnable(j, t) ==
  \/ j.state = "waiting"
  \/ j.state = "delayed" /\ j.runAt <= t

SetJob(q, i, j) == [q EXCEPT ![i] = j]

ActiveIdx(q, id) == CHOOSE i \in DOMAIN q : q[i].id = id /\ q[i].state = "active"

(* ---------------- the repository ---------------- *)
\* A row can be written while its account exists (accountId is a foreign key).
CanSave == acct \in {"nocred", "linked"}

IdleApi == [op |-> "none", pc |-> "idle", id |-> 0, row |-> NoRow,
            scheduledFor |-> Null, result |-> "none"]
\* error is the message of the error caught, audit the entries the run wrote
IdleWorker == [pc |-> "idle", id |-> 0, attemptNumber |-> 0, row |-> NoRow,
               error |-> "none", audit |-> <<>>]
\* batch is what is left of pendingPosts; found is pendingPosts as read and
\* threw the posts of this cycle whose addPublishJob raised
IdlePoller == [pc |-> "idle", batch |-> <<>>, found |-> <<>>, threw |-> {}]

\* a delete job: the data it carries, Bull's count of failed attempts, the
\* runs of handleDelete and calls of the external API so far, what the last run
\* returned and the audit entries the job wrote
IdleDelete == [pc |-> "idle", postId |-> 0, retryCount |-> 0, attemptsMade |-> 0,
               runs |-> 0, calls |-> 0, result |-> "none", audit |-> <<>>]

\* failedCalls counts, for each item of the running batch, the calls of the
\* external API that raised
IdleBulk == [pc |-> "idle", postIds |-> <<>>, i |-> 0, items |-> <<>>,
             failedCalls |-> <<>>, successful |-> <<>>, failed |-> <<>>, progress |-> 0]

InitPipeline ==
  /\ posts = [p \in RowIds |-> NoRow]
  /\ queue = <<>>
  /\ now = 0
  /\ nextId = 1
  /\ poller = IdlePoller
  /\ worker = IdleWorker
  /\ api = IdleApi
  /\ writer = [p \in RowIds |-> "none"]
  /\ executions = [p \in RowIds |-> 0]

IdleVault == [pc |-> "idle", scheme |-> "none", text |-> <<>>, sealed |-> <<>>,
              altered |-> "none", out |-> [ok |-> FALSE, text |-> <<>>]]

ColumnNames == {"clientIdEnc", "clientSecretEnc", "accessTokenEnc"}

NoColumns == [c \in ColumnNames |-> <<>>]

\* a stored Credential row (columns), the plaintexts last assigned to it
\* (secrets), the entity a read produced and the outcome of the last call
NoCredential == [exists |-> FALSE, columns |-> NoColumns, secrets |-> NoColumns,
                 op |-> "none", wired |-> FALSE, entity |-> NoColumns,
                 column |-> "none", raised |-> FALSE]

AccountIds == 1..MaxAccounts

AccountStatus == [ACTIVE |-> "active", WARNING |-> "warning", ERROR |-> "error"]

\* an Account row joined with its Credential row; isValid and expires_at are
\* what the introspection API answers for the access token
NoAccount == [status |-> AccountStatus.ACTIVE, lastHealthCheckError |-> "none",
              lastHealthCheckAt |-> Null, savedBy |-> "none",
              credential |-> FALSE, expiresAt |-> Null, lastVerifiedAt |-> Null,
              isValid |-> "true", expires_at |-> Null]

\* a sweep: the entities still to handle and those handled, with the clock
\* and the stored statuses at its find
IdleSweep == [pc |-> "idle", todo |-> <<>>, handled |-> <<>>,
              startedAt |-> Null, before |-> <<>>]

IdleValidator == [clock |-> 0, sweeps |-> 0, hourly |-> IdleSweep, daily |-> IdleSweep]

InitSide ==
  /\ cache = {}
  /\ bulk = IdleBulk
  /\ deleter = IdleDelete
  /\ vault = IdleVault
  /\ instance = FALSE
  /\ cred = NoCredential
  /\ accounts = [a \in AccountIds |-> NoAccount]
  /\ audit = <<>>
  /\ validator = IdleValidator

Init ==
  /\ InitPipeline
  /\ acct = "none"
  /\ InitSide

(* ---------------- environment ---------------- *)
Tick ==
  /\ now < MaxNow
  /\ now' = now + 1
  /\ UNCHANGED <<posts, queue, acct, nextId, poller, worker, api, writer>>
  /\ UNCHANGED side

\* AccountsService.linkAccount: the account row is saved first ...
LinkAccountSave ==
  /\ acct = "none"
  /\ acct' = "nocred"
  /\ UNCHANGED <<posts, queue, now, nextId, poller, worker, api, writer>>
  /\ UNCHANGED side

\* ... and its credential in a second save.
LinkCredentialSave ==
  /\ acct = "nocred"
  /\ acct' = "linked"
  /\ UNCHANGED <<posts, queue, now, nextId, poller, worker, api, writer>>
  /\ UNCHANGED side

\* AccountsService.unlinkAccount: removing the account cascades to its posts.
UnlinkAccount ==
  /\ acct \in {"nocred", "linked"}
  /\ acct' = "gone"
  /\ posts' = [p \in RowIds |-> NoRow]
  /\ UNCHANGED <<queue, now, nextId, poller, worker, api>>
  /\ writer' = [p \in RowIds |-> "none"]
  /\ UNCHANGED side

(* ---------------- PostsService ---------------- *)
\* the request is over; result is what the caller receives
Done(op, id, result) ==
  [op |-> op, pc |-> "done", id |-> id, row |-> NoRow,
   scheduledFor |-> Null, result |-> result]

\* the response leaves the service
ApiReturn ==
  /\ api.pc = "done"
  /\ api' = IdleApi
  /\ UNCHANGED <<posts, queue, acct, now, nextId, poller, worker, writer>>
  /\ UNCHANGED side

\* the text and the media of the request body of createPost
CreatePostDto == [text |-> "first", mediaUrls |-> "first"]

\* create(...) and save(post): the row gets the next identity
SavePost(sf) ==
  /\ posts' = [posts EXCEPT ![nextId] =
       [exists |-> TRUE,
        status |-> IF sf # Null THEN SCHEDULED ELSE PENDING,
        attempts |-> 0, externalPostId |-> Null, publishedAt |-> Null,
        scheduledAt |-> IF sf # Null THEN sf ELSE now,
        scheduleMode |-> IF sf # Null THEN TIMED ELSE IMMEDIATE,
        lastError |-> "none", errorDetails |-> NoRow.errorDetails,
        text |-> CreatePostDto.text, mediaRefs |-> CreatePostDto.mediaUrls]]
  /\ api' = [op |-> "create", pc |-> "add", id |-> nextId,
             row |-> NoRow, scheduledFor |-> sf, result |-> "none"]
  /\ nextId' = nextId + 1
  /\ UNCHANGED <<queue, acct, now, poller, worker>>
  /\ writer' = [writer EXCEPT ![nextId] = "api"]
  /\ UNCHANGED side

\* createPost up to the save of the new row; sf = Null is an immediate post.
CreatePostSave(sf) ==
  /\ api.pc = "idle"
  /\ acct \in {"nocred", "linked"}
  /\ nextId <= MaxPosts
  /\ sf # Null => sf >= now + MinLead
  /\ SavePost(sf)

\* the client sends the request that created the first post once more, with
\* the same Idempotency-Key header: the controller hands the body alone to
\* createPost, which looks no key up and stores none
RepeatCreatePost ==
  /\ api.pc = "idle"
  /\ acct \in {"nocred", "linked"}
  /\ posts[1].exists
  /\ nextId <= TableSize
  /\ LET sf == IF posts[1].scheduleMode = TIMED THEN posts[1].scheduledAt ELSE Null
     IN /\ sf # Null => sf >= now + MinLead
        /\ SavePost(sf)

\* createPost: the publish job is enqueued after the row has been saved,
\* with the text and media of savedPost, the entity the save returned.
CreatePostAdd ==
  /\ api.op = "create" /\ api.pc = "add"
  /\ queue' = addPublishJob(queue, api.id, 0,
                IF api.scheduledFor # Null THEN api.scheduledFor - now ELSE 0, now,
                PublishData([text |-> CreatePostDto.text,
                             mediaRefs |-> CreatePostDto.mediaUrls]))
  /\ api' = Done("create", api.id, "ok")
  /\ UNCHANGED <<posts, acct, now, nextId, poller, worker, writer>>
  /\ UNCHANGED side

CancellableOrPending(row) == row.status \in {SCHEDULED, PENDING}

\* cancelPost and updatePost act on SCHEDULED posts only
Cancellable(row) == row.status = SCHEDULED

\* cancelPost: load the post and check its status.
CancelPostBegin(p) ==
  /\ api.pc = "idle"
  /\ api' = IF ~posts[p].exists THEN Done("cancel", p, "NotFound")
            ELSE IF ~Cancellable(posts[p]) THEN Done("cancel", p, "BadRequest")
            ELSE [op |-> "cancel", pc |-> "save", id |-> p, row |-> posts[p],
                  scheduledFor |-> Null, result |-> "none"]
  /\ UNCHANGED <<posts, queue, acct, now, nextId, poller, worker, writer>>
  /\ UNCHANGED side

\* cancelPost: post.status = CANCELLED; save(post).
CancelPostSave ==
  /\ api.op = "cancel" /\ api.pc = "save"
  /\ IF CanSave
       THEN /\ posts' = [posts EXCEPT ![api.id] = [api.row EXCEPT !.status = CANCELLED]]
            /\ api' = [api EXCEPT !.pc = "remove", !.row = NoRow]
       ELSE /\ posts' = posts
            /\ api' = Done("cancel", api.id, "Error")
  /\ UNCHANGED <<queue, acct, now, nextId, poller, worker>>
  /\ writer' = IF CanSave THEN [writer EXCEPT ![api.id] = "api"] ELSE writer
  /\ UNCHANGED side

\* cancelPost: removeJob(postId).
CancelPostRemove ==
  /\ api.op = "cancel" /\ api.pc = "remove"
  /\ IF RemoveThrows(queue, api.id)
       THEN /\ queue' = queue
            /\ api' = Done("cancel", api.id, "Error")
       ELSE /\ queue' = removeJob(queue, api.id)
            /\ api' = Done("cancel", api.id, "ok")
  /\ UNCHANGED <<posts, acct, now, nextId, poller, worker, writer>>
  /\ UNCHANGED side

UpdatePostBeginAnyStatus(p, sf) ==
  /\ api.pc = "idle"
  /\ sf # Null => sf >= now + MinLead
  /\ api' = IF ~posts[p].exists THEN Done("update", p, "NotFound")
            ELSE [op |-> "update", pc |-> "save", id |-> p,
                  row |-> IF sf # Null THEN [posts[p] EXCEPT !.scheduledAt = sf]
                          ELSE posts[p],
                  scheduledFor |-> sf, result |-> "none"]
  /\ UNCHANGED <<posts, queue, acct, now, nextId, poller, worker, writer>>
  /\ UNCHANGED side

\* updatePost: load the post, check its status and the new time, and
\* assign the fields the request gives through the entity's setters:
\* content to text, mediaUrls to mediaRefs, scheduledFor to scheduledAt.
\* sf = Null and "absent" are fields the request leaves out.
UpdatePostRequest(p, sf, content, mediaUrls) ==
  /\ api.pc = "idle"
  /\ sf # Null => sf >= now + MinLead
  /\ api' = IF ~posts[p].exists THEN Done("update", p, "NotFound")
            ELSE IF posts[p].status # SCHEDULED THEN Done("update", p, "BadRequest")
            ELSE [op |-> "update", pc |-> "save", id |-> p,
                  row |-> [posts[p] EXCEPT
                             !.text = IF content # "absent" THEN content ELSE @,
                             !.mediaRefs = IF mediaUrls # "absent" THEN mediaUrls ELSE @,
                             !.scheduledAt = IF sf # Null THEN sf ELSE @],
                  scheduledFor |-> sf, result |-> "none"]
  /\ UNCHANGED <<posts, queue, acct, now, nextId, poller, worker, writer>>
  /\ UNCHANGED side

\* updatePost of the schedule alone; sf = Null changes nothing.
UpdatePostBegin(p, sf) == UpdatePostRequest(p, sf, "absent", "absent")

\* updatePost: Object.assign(post, dto); save(post).
UpdatePostSave ==
  /\ api.op = "update" /\ api.pc = "save"
  /\ IF CanSave
       THEN /\ posts' = [posts EXCEPT ![api.id] = api.row]
            /\ api' = IF api.scheduledFor # Null THEN [api EXCEPT !.pc = "remove", !.row = NoRow]
                      ELSE Done("update", api.id, "ok")
       ELSE /\ posts' = posts
            /\ api' = Done("update", api.id, "Error")
  /\ UNCHANGED <<queue, acct, now, nextId, poller, worker>>
  /\ writer' = IF CanSave THEN [writer EXCEPT ![api.id] = "api"] ELSE writer
  /\ UNCHANGED side

\* updatePost: removeJob(postId) when the time changed.
UpdatePostRemove ==
  /\ api.op = "update" /\ api.pc = "remove"
  /\ IF RemoveThrows(queue, api.id)
       THEN /\ queue' = queue
            /\ api' = Done("update", api.id, "Error")
       ELSE /\ queue' = removeJob(queue, api.id)
            /\ api' = [api EXCEPT !.pc = "add"]
  /\ UNCHANGED <<posts, acct, now, nextId, poller, worker, writer>>
  /\ UNCHANGED side

\* updatePost: re-read the row and enqueue the job again with the new delay.
UpdatePostAdd ==
  /\ api.op = "update" /\ api.pc = "add"
  /\ queue' = IF posts[api.id].exists
                THEN addPublishJob(queue, api.id, 0, api.scheduledFor - now, now,
                                   PublishData(posts[api.id]))
                ELSE queue
  /\ api' = [Done("update", api.id, "ok") EXCEPT !.scheduledFor = api.scheduledFor]
  /\ UNCHANGED <<posts, acct, now, nextId, poller, worker, writer>>
  /\ UNCHANGED side

(* ---------------- SchedulerService ---------------- *)
isProcessing == poller.pc # "idle"

DueWithScheduled(ps, t) ==
  {p \in RowIds : /\ ps[p].exists
                   /\ ps[p].status \in {PENDING, FAILED, SCHEDULED}
                   /\ ps[p].scheduledAt <= t}

\* where: status In [PENDING, FAILED], scheduledAt <= now
Due(ps, t) ==
  {p \in RowIds : /\ ps[p].exists
                   /\ ps[p].status \in {PENDING, FAILED}
                   /\ ps[p].scheduledAt <= t}

\* order: { scheduledAt: "ASC" }, ties in insertion order
Earliest(ps, S) ==
  CHOOSE p \in S : \A r \in S :
    \/ ps[p].scheduledAt < ps[r].scheduledAt
    \/ ps[p].scheduledAt = ps[r].scheduledAt /\ p <= r

RECURSIVE Ordered(_, _)
Ordered(ps, S) ==
  IF S = {} THEN <<>>
  ELSE LET p == Earliest(ps, S)
       IN <<[id |-> p, row |-> ps[p]]>> \o Ordered(ps, S \ {p})

Take(s, n) == SubSeq(s, 1, IF Len(s) < n THEN Len(s) ELSE n)

find(ps, t) == Take(Ordered(ps, Due(ps, t)), BatchSize)

PollStartUnguarded ==
  /\ LET pendingPosts == find(posts, now)
     IN poller' = IF pendingPosts = <<>> THEN IdlePoller
                  ELSE [pc |-> "add", batch |-> pendingPosts,
                        found |-> pendingPosts, threw |-> {}]
  /\ UNCHANGED <<posts, queue, acct, now, nextId, worker, api, writer>>
  /\ UNCHANGED side

\* processPendingPosts: take the guard and read the due posts.
PollStart ==
  /\ ~isProcessing
  /\ LET pendingPosts == find(posts, now)
     IN poller' = IF pendingPosts = <<>> THEN IdlePoller
                  ELSE [pc |-> "add", batch |-> pendingPosts,
                        found |-> pendingPosts, threw |-> {}]
  /\ UNCHANGED <<posts, queue, acct, now, nextId, worker, api, writer>>
  /\ UNCHANGED side

\* the query raises: the outer catch logs the error and the finally block
\* gives the guard back
PollStartThrows ==
  /\ ~isProcessing
  /\ poller' = IdlePoller
  /\ UNCHANGED <<posts, queue, acct, now, nextId, worker, api, writer>>
  /\ UNCHANGED side

\* A cron tick that finds the guard taken returns at once.
PollSkip ==
  /\ isProcessing
  /\ UNCHANGED vars

RestKeepsGuard(b) ==
  IF Len(b) = 1 THEN [IdlePoller EXCEPT !.pc = "returned"]
  ELSE [poller EXCEPT !.pc = "add", !.batch = Tail(b)]

\* the next iteration of the for loop, or the finally block after the last
Rest(b) ==
  IF Len(b) = 1 THEN IdlePoller ELSE [poller EXCEPT !.pc = "add", !.batch = Tail(b)]

SkipPostOffByOne(row) == row.status = FAILED /\ row.attempts > MaxAttempts

SkipPost(row) == row.status = FAILED /\ row.attempts >= MaxAttempts

\* loop body up to addPublishJob
PollAdd ==
  /\ poller.pc = "add"
  /\ LET post == Head(poller.batch)
     IN IF SkipPost(post.row)
          THEN /\ queue' = queue
               /\ poller' = Rest(poller.batch)
          ELSE /\ queue' = addPublishJob(queue, post.id, post.row.attempts + 1, 0, now,
                                        PublishData(post.row))
               /\ poller' = [poller EXCEPT !.pc = "save"]
  /\ UNCHANGED <<posts, acct, now, nextId, worker, api, writer>>
  /\ UNCHANGED side

PollAddThrowsAborts ==
  /\ poller.pc = "add"
  /\ ~SkipPost(Head(poller.batch).row)
  /\ poller' = IdlePoller
  /\ UNCHANGED <<posts, queue, acct, now, nextId, worker, api, writer>>
  /\ UNCHANGED side

\* addPublishJob raises: the catch of the loop body logs the error and the
\* loop goes on with the next post
PollAddThrows ==
  /\ poller.pc = "add"
  /\ ~SkipPost(Head(poller.batch).row)
  /\ poller' = IF Len(poller.batch) = 1 THEN IdlePoller
                ELSE [Rest(poller.batch) EXCEPT !.threw = @ \cup {Head(poller.batch).id}]
  /\ UNCHANGED <<posts, queue, acct, now, nextId, worker, api, writer>>
  /\ UNCHANGED side

\* post.status = PROCESSING; save(post)
PollSave ==
  /\ poller.pc = "save"
  /\ LET post == Head(poller.batch)
     IN posts' = IF CanSave
                   THEN [posts EXCEPT ![post.id] = [post.row EXCEPT !.status = PROCESSING]]
                   ELSE posts
  /\ poller' = Rest(poller.batch)
  /\ UNCHANGED <<queue, acct, now, nextId, worker, api>>
  /\ writer' = IF CanSave THEN [writer EXCEPT ![Head(poller.batch).id] = "poller"] ELSE writer
  /\ UNCHANGED side

(* ---------------- PostPublisherProcessor ---------------- *)
\* Bull hands a runnable job to the processor.
TakeJob(i) ==
  /\ worker.pc = "idle"
  /\ i \in DOMAIN queue
  /\ Runnable(queue[i], now)
  /\ queue' = SetJob(queue, i, [queue[i] EXCEPT !.state = "active", !.runAt = 0])
  /\ worker' = [IdleWorker EXCEPT !.pc = "find", !.id = queue[i].id,
                                   !.attemptNumber = queue[i].attemptNumber]
  /\ UNCHANGED <<posts, acct, now, nextId, poller, api, writer>>

WorkerTake(i) ==
  /\ TakeJob(i)
  /\ UNCHANGED side

\* the same step with the run of handlePublish entered in the history
WorkerTakeCounted(i) ==
  /\ TakeJob(i)
  /\ executions' = [executions EXCEPT ![queue[i].id] = @ + 1]
  /\ UNCHANGED <<deletion, sealing, credentials, monitoring>>

\* control reaches the catch block; the entity of the try block is out of scope
Caught(message) == [worker EXCEPT !.pc = "catch", !.row = NoRow, !.error = message]

\* findOne(scheduledPostId)
WorkerFind ==
  /\ worker.pc = "find"
  /\ worker' = IF posts[worker.id].exists
                 THEN [worker EXCEPT !.pc = "saveProcessing", !.row = posts[worker.id]]
                 ELSE Caught("post not found")
  /\ UNCHANGED <<posts, queue, acct, now, nextId, poller, api, writer>>
  /\ UNCHANGED side

ProcessingRowIncrement(row, attemptNumber) ==
  [row EXCEPT !.status = PROCESSING, !.attempts = @ + 1]

\* scheduledPost.status = PROCESSING; scheduledPost.attempts = attemptNumber
ProcessingRow(row, attemptNumber) ==
  [row EXCEPT !.status = PROCESSING, !.attempts = attemptNumber]

CompletedRowNoTimestamp(row, t) ==
  [row EXCEPT !.status = COMPLETED, !.externalPostId = t]

\* the success update: the external identity is threads_<Date.now()>
CompletedRow(row, t) ==
  [row EXCEPT !.status = COMPLETED, !.externalPostId = t, !.publishedAt = t]

\* status = PROCESSING; attempts = attemptNumber; save
WorkerSaveProcessing ==
  /\ worker.pc = "saveProcessing"
  /\ LET row == ProcessingRow(worker.row, worker.attemptNumber)
     IN IF CanSave
          THEN /\ posts' = [posts EXCEPT ![worker.id] = row]
               /\ worker' = [worker EXCEPT !.pc = "findAccount", !.row = row]
          ELSE /\ posts' = posts
               /\ worker' = Caught("save failed")
  /\ UNCHANGED <<queue, acct, now, nextId, poller, api>>
  /\ writer' = IF CanSave THEN [writer EXCEPT ![worker.id] = "worker"] ELSE writer
  /\ UNCHANGED side

\* account with its credential
WorkerFindAccount ==
  /\ worker.pc = "findAccount"
  /\ worker' = IF acct = "linked" THEN [worker EXCEPT !.pc = "saveCompleted"]
                ELSE Caught("account or credentials not found")
  /\ UNCHANGED <<posts, queue, acct, now, nextId, poller, api, writer>>
  /\ UNCHANGED side

\* status = COMPLETED with the external identity and the publication time; save
WorkerSaveCompleted ==
  /\ worker.pc = "saveCompleted"
  /\ LET row == CompletedRow(worker.row, now)
     IN IF CanSave
          THEN /\ posts' = [posts EXCEPT ![worker.id] = row]
               /\ worker' = [worker EXCEPT !.pc = "return", !.row = NoRow]
          ELSE /\ posts' = posts
               /\ worker' = Caught("save failed")
  /\ UNCHANGED <<queue, acct, now, nextId, poller, api>>
  /\ writer' = IF CanSave THEN [writer EXCEPT ![worker.id] = "worker"] ELSE writer
  /\ UNCHANGED side

\* success audit entry and return: the job completes and is removed
WorkerReturn ==
  /\ worker.pc = "return"
  /\ queue' = SelectSeq(queue, LAMBDA j : ~(j.id = worker.id /\ j.state = "active"))
  /\ worker' = IdleWorker
  /\ UNCHANGED <<posts, acct, now, nextId, poller, api, writer>>
  /\ UNCHANGED side

\* catch: re-read the row
WorkerCatchFind ==
  /\ worker.pc = "catch"
  /\ worker' = IF posts[worker.id].exists
                 THEN [worker EXCEPT !.pc = "catchSave", !.row = posts[worker.id]]
                 ELSE [worker EXCEPT !.pc = "catchAudit", !.row = NoRow]
  /\ UNCHANGED <<posts, queue, acct, now, nextId, poller, api, writer>>
  /\ UNCHANGED side

FailedRowWithoutError(row, message, attemptNumber, t) ==
  [row EXCEPT !.status = FAILED]

\* status = FAILED; lastError = error.message; errorDetails
FailedRow(row, message, attemptNumber, t) ==
  [row EXCEPT !.status = FAILED, !.lastError = message,
              !.errorDetails = [attemptNumber |-> attemptNumber,
                                error |-> message, timestamp |-> t]]

\* catch: status = FAILED with the error; save
WorkerCatchSave ==
  /\ worker.pc = "catchSave"
  /\ LET row == FailedRow(worker.row, worker.error, worker.attemptNumber, now)
     IN IF CanSave
          THEN /\ posts' = [posts EXCEPT ![worker.id] = row]
               /\ worker' = [worker EXCEPT !.pc = "catchAudit", !.row = row]
          ELSE /\ posts' = posts
               /\ worker' = [worker EXCEPT !.pc = "throw", !.row = NoRow,
                                           !.error = "save failed"]
  /\ UNCHANGED <<queue, acct, now, nextId, poller, api>>
  /\ writer' = IF CanSave THEN [writer EXCEPT ![worker.id] = "worker"] ELSE writer
  /\ UNCHANGED side

\* catch: the POST_FAILED audit entry
WorkerCatchAudit ==
  /\ worker.pc = "catchAudit"
  /\ worker' = [worker EXCEPT
        !.pc = "throw",
        !.audit = Append(@, [action |-> "POST_FAILED", targetId |-> worker.id,
                             success |-> FALSE, errorMessage |-> worker.error,
                             attemptNumber |-> worker.attemptNumber])]
  /\ UNCHANGED <<posts, queue, acct, now, nextId, poller, api, writer>>
  /\ UNCHANGED side

\* the error reaches Bull: retry with backoff while attempts remain,
\* otherwise the job is kept in the failed set (removeOnFail: false)
Failed(j) ==
  IF j.attemptsMade + 1 < QueueAttempts
    THEN [j EXCEPT !.attemptsMade = @ + 1, !.state = "delayed", !.runAt = now]
    ELSE [j EXCEPT !.attemptsMade = @ + 1, !.state = "failed", !.runAt = 0]

WorkerThrow ==
  /\ worker.pc = "throw"
  /\ LET i == ActiveIdx(queue, worker.id)
     IN queue' = SetJob(queue, i, Failed(queue[i]))
  /\ worker' = IdleWorker
  /\ UNCHANGED <<posts, acct, now, nextId, poller, api, writer>>
  /\ UNCHANGED side

Next ==
  \/ Tick
  \/ LinkAccountSave
  \/ LinkCredentialSave
  \/ UnlinkAccount
  \/ \E sf \in {Null} \cup Times : CreatePostSave(sf)
  \/ CreatePostAdd
  \/ \E p \in PostIds : CancelPostBegin(p)
  \/ CancelPostSave
  \/ CancelPostRemove
  \/ \E p \in PostIds, sf \in {Null} \cup Times : UpdatePostBegin(p, sf)
  \/ UpdatePostSave
  \/ UpdatePostRemove
  \/ UpdatePostAdd
  \/ ApiReturn
  \/ PollStart
  \/ PollSkip
  \/ PollAdd
  \/ PollSave
  \/ \E i \in DOMAIN queue : WorkerTake(i)
  \/ WorkerFind
  \/ WorkerSaveProcessing
  \/ WorkerFindAccount
  \/ WorkerSaveCompleted
  \/ WorkerReturn
  \/ WorkerCatchFind
  \/ WorkerCatchSave
  \/ WorkerCatchAudit
  \/ WorkerThrow

\* the pipeline left to itself: posts are created, and no request cancels
\* or updates a post or unlinks the account
NextLive ==
  \/ Tick
  \/ LinkAccountSave
  \/ LinkCredentialSave
  \/ \E sf \in {Null} \cup Times : CreatePostSave(sf)
  \/ CreatePostAdd
  \/ ApiReturn
  \/ PollStart
  \/ PollSkip
  \/ PollAdd
  \/ PollSave
  \/ \E i \in DOMAIN queue : WorkerTakeCounted(i)
  \/ WorkerFind
  \/ WorkerSaveProcessing
  \/ WorkerFindAccount
  \/ WorkerSaveCompleted
  \/ WorkerReturn
  \/ WorkerCatchFind
  \/ WorkerCatchSave
  \/ WorkerCatchAudit
  \/ WorkerThrow

\* POST /v1/scheduled-posts, every request carrying one Idempotency-Key
NextIdempotency ==
  \/ Tick
  \/ LinkAccountSave
  \/ LinkCredentialSave
  \/ \E sf \in {Null} \cup Times : CreatePostSave(sf)
  \/ RepeatCreatePost
  \/ CreatePostAdd
  \/ ApiReturn

\* PATCH /v1/scheduled-posts/:id with any of content, mediaUrls and
\* scheduledFor in the body, while the worker publishes
NextUpdate ==
  \/ Tick
  \/ LinkAccountSave
  \/ LinkCredentialSave
  \/ \E sf \in {Null} \cup Times : CreatePostSave(sf)
  \/ CreatePostAdd
  \/ \E p \in PostIds, sf \in {Null} \cup Times,
        content \in {"absent", "edited"}, mediaUrls \in {"absent", "edited"} :
       UpdatePostRequest(p, sf, content, mediaUrls)
  \/ UpdatePostSave
  \/ UpdatePostRemove
  \/ UpdatePostAdd
  \/ ApiReturn
  \/ \E i \in DOMAIN queue : WorkerTake(i)
  \/ WorkerFind
  \/ WorkerSaveProcessing
  \/ WorkerFindAccount
  \/ WorkerSaveCompleted
  \/ WorkerReturn
  \/ WorkerCatchFind
  \/ WorkerCatchSave
  \/ WorkerCatchAudit
  \/ WorkerThrow

(* ---------------- SchedulerService over a table of rows ---------------- *)
\* under SpecScheduler the clock counts days from the start of the model;
\* rows published before that have a negative publishedAt
CleanupOldJobsAtThirtyDays(throws) ==
  /\ posts' = IF throws THEN posts
               ELSE [p \in RowIds |->
                       IF /\ posts[p].exists
                          /\ posts[p].status = COMPLETED
                          /\ posts[p].publishedAt # Null
                          /\ posts[p].publishedAt <= now - RetentionDays
                         THEN NoRow ELSE posts[p]]
  /\ writer' = [p \in RowIds |->
                  IF posts[p].exists /\ ~posts'[p].exists THEN "cleanup" ELSE writer[p]]
  /\ UNCHANGED <<queue, acct, now, nextId, poller, worker, api>>
  /\ UNCHANGED side

\* cleanupOldJobs: cleanOldJobs of the queue removes completed jobs, of which
\* the queue keeps none; then the rows with status = COMPLETED and
\* publishedAt < thirtyDaysAgo are deleted. An error of either is logged.
CleanupOldJobs(throws) ==
  /\ posts' = IF throws THEN posts
               ELSE [p \in RowIds |->
                       IF /\ posts[p].exists
                          /\ posts[p].status = COMPLETED
                          /\ posts[p].publishedAt # Null
                          /\ posts[p].publishedAt < now - RetentionDays
                         THEN NoRow ELSE posts[p]]
  /\ writer' = [p \in RowIds |->
                  IF posts[p].exists /\ ~posts'[p].exists THEN "cleanup" ELSE writer[p]]
  /\ UNCHANGED <<queue, acct, now, nextId, poller, worker, api>>
  /\ UNCHANGED side

\* the table when the scheduler's crons fire: posts waiting or failed (with
\* their error), in progress, cancelled, and posts published about thirty days
\* ago; the queue holds, for some of the due posts, the job createPost added
\* or the job a failed post left in the failed set
InitScheduler ==
  LET Waiting(t) == [NoRow EXCEPT !.exists = TRUE, !.scheduledAt = t,
                                  !.scheduleMode = TIMED]
      SchedulerRows ==
        {NoRow}
        \cup {Waiting(t) : t \in Times}
        \cup {FailedRow([Waiting(t) EXCEPT !.attempts = n],
                        "account or credentials not found", n, 0) :
                t \in Times, n \in {0, MaxAttempts}}
        \cup {[Waiting(0) EXCEPT !.status = st] : st \in {PROCESSING, CANCELLED}}
        \cup {CompletedRow([Waiting(0) EXCEPT !.attempts = 1], t - RetentionDays) :
                t \in {-1, 0, 1}}
      JobOf(p) ==
        IF posts[p].status = FAILED
          THEN [NewJob(p, 0, 0, 0, PublishData(posts[p]))
                  EXCEPT !.attemptsMade = QueueAttempts, !.state = "failed"]
          ELSE NewJob(p, 0, 0, 0, PublishData(posts[p]))
  IN /\ posts \in [RowIds -> SchedulerRows]
     /\ \E S \in SUBSET Due(posts, MaxNow) :
          queue = [i \in 1..Cardinality(S) |-> JobOf(Ordered(posts, S)[i].id)]
     /\ now = 0
     /\ nextId = TableSize + 1
     /\ poller = IdlePoller
     /\ worker = IdleWorker
     /\ api = IdleApi
     /\ writer = [p \in RowIds |-> "none"]
     /\ executions = [p \in RowIds |-> 0]
     /\ acct = "linked"
     /\ InitSide

NextScheduler ==
  \/ Tick
  \/ UnlinkAccount
  \/ PollStart
  \/ PollStartThrows
  \/ PollSkip
  \/ PollAdd
  \/ PollAddThrows
  \/ PollSave
  \/ \E throws \in BOOLEAN : CleanupOldJobs(throws)

(* ---------------- PostDeletionProcessor ---------------- *)
DelIds == 1..MaxDelIds

\* the identity lists a bulk-delete job can carry; identities are
\* interchangeable, so a list is taken to begin with the first of them
Lists ==
  {l \in UNION {[1..n -> DelIds] : n \in 0..MaxList} : Len(l) > 0 => l[1] = 1}

Min(a, b) == IF a < b THEN a ELSE b

\* postIds.slice(i, i + batchSize)
Slice(l, i) == SubSeq(l, i + 1, Min(i + DeleteBatchSize, Len(l)))

\* batch.map(async ...): every item runs up to its first await, the findOne
StartBatch(b, i) ==
  [b EXCEPT !.pc = "batch", !.i = i,
            !.items = [k \in 1..Len(Slice(b.postIds, i)) |-> "find"],
            !.failedCalls = [k \in 1..Len(Slice(b.postIds, i)) |-> 0]]

Finished == {"ok", "failed"}

\* the identity item k of the running batch deletes
ItemId(k) == bulk.postIds[bulk.i + k]

\* handleBulkDelete up to the first Promise.all
BulkStart(l) ==
  /\ bulk.pc = "idle"
  /\ bulk' = IF Len(l) = 0
              THEN [IdleBulk EXCEPT !.pc = "returned"]
              ELSE StartBatch([IdleBulk EXCEPT !.postIds = l], 0)
  /\ UNCHANGED <<pipeline, cache, deleter, sealing, credentials, monitoring>>

\* handleDelete returned: results.successful.push(postId)
Succeed(k) ==
  [bulk EXCEPT !.items[k] = "ok", !.successful = Append(@, ItemId(k))]

\* handleDelete's catch with the retryCount of the job data: it re-throws
\* while retryCount < 3, and a bulk item carries no retryCount (0)
Rethrows(retryCount) == retryCount < DeleteRetryLimit

FailUnreported(k, message) == [bulk EXCEPT !.items[k] = "failed"]

FailAborts(k, message) == [bulk EXCEPT !.pc = "aborted"]

\* an error inside handleDelete: re-thrown, it is caught by the item's
\* catch, results.failed.push({postId, error: error.message}); swallowed,
\* handleDelete writes the failure audit entry and returns
Fail(k, message) ==
  IF Rethrows(0)
    THEN [bulk EXCEPT !.items[k] = "failed",
                      !.failed = Append(@, [postId |-> ItemId(k), error |-> message])]
    ELSE [bulk EXCEPT !.items[k] = "audit"]

\* handleDelete: findOne in the cache; no row counts as already deleted
ItemFind(k) ==
  /\ bulk.pc = "batch" /\ k \in DOMAIN bulk.items
  /\ bulk.items[k] = "find"
  /\ bulk' = IF ItemId(k) \in cache
              THEN [bulk EXCEPT !.items[k] = "account"]
              ELSE Succeed(k)
  /\ UNCHANGED <<pipeline, cache, deleter, sealing, credentials, monitoring>>

\* handleDelete: the account with its credential
ItemAccount(k) ==
  /\ bulk.pc = "batch" /\ k \in DOMAIN bulk.items
  /\ bulk.items[k] = "account"
  /\ bulk' = IF acct = "linked" THEN [bulk EXCEPT !.items[k] = "api"] ELSE Fail(k, "Account or credentials not found")
  /\ UNCHANGED <<pipeline, cache, deleter, sealing, credentials, monitoring>>

\* handleDelete: threadsApiService.deletePost answers or throws
ItemApi(k, ok) ==
  /\ bulk.pc = "batch" /\ k \in DOMAIN bulk.items
  /\ bulk.items[k] = "api"
  /\ bulk' = IF ok THEN [bulk EXCEPT !.items[k] = "remove"]
              ELSE [Fail(k, "Threads API error") EXCEPT !.failedCalls[k] = @ + 1]
  /\ UNCHANGED <<pipeline, cache, deleter, sealing, credentials, monitoring>>

\* handleDelete: remove the cache row
ItemRemove(k) ==
  /\ bulk.pc = "batch" /\ k \in DOMAIN bulk.items
  /\ bulk.items[k] = "remove"
  /\ cache' = cache \ {ItemId(k)}
  /\ bulk' = [bulk EXCEPT !.items[k] = "audit"]
  /\ UNCHANGED <<pipeline, deleter, sealing, credentials, monitoring>>

\* handleDelete: the audit entry is saved and handleDelete returns
ItemAudit(k) ==
  /\ bulk.pc = "batch" /\ k \in DOMAIN bulk.items
  /\ bulk.items[k] = "audit"
  /\ bulk' = Succeed(k)
  /\ UNCHANGED <<pipeline, cache, deleter, sealing, credentials, monitoring>>

BulkAfterBatchEarly ==
  /\ bulk.pc = "batch"
  /\ \E k \in DOMAIN bulk.items : bulk.items[k] \in Finished
  /\ bulk' = [bulk EXCEPT !.pc = IF bulk.i + DeleteBatchSize < Len(bulk.postIds)
                                   THEN "delay" ELSE "progress"]
  /\ UNCHANGED <<pipeline, cache, deleter, sealing, credentials, monitoring>>

\* Promise.all resolved: wait between batches unless this was the last
BulkAfterBatch ==
  /\ bulk.pc = "batch"
  /\ \A k \in DOMAIN bulk.items : bulk.items[k] \in Finished
  /\ bulk' = [bulk EXCEPT !.pc = IF bulk.i + DeleteBatchSize < Len(bulk.postIds)
                                   THEN "delay" ELSE "progress"]
  /\ UNCHANGED <<pipeline, cache, deleter, sealing, credentials, monitoring>>

\* the delay between two batches has elapsed
BulkDelay ==
  /\ bulk.pc = "delay"
  /\ bulk' = [bulk EXCEPT !.pc = "progress"]
  /\ UNCHANGED <<pipeline, cache, deleter, sealing, credentials, monitoring>>

\* job.progress(...), then the next round of the loop or the return
BulkProgress ==
  /\ bulk.pc = "progress"
  /\ LET b == [bulk EXCEPT !.progress =
                 ((bulk.i + Len(bulk.items)) * 100) \div Len(bulk.postIds)]
         i == bulk.i + DeleteBatchSize
     IN bulk' = IF i < Len(bulk.postIds)
                  THEN StartBatch(b, i)
                  ELSE [b EXCEPT !.pc = "returned", !.i = i, !.items = <<>>,
                                 !.failedCalls = <<>>]
  /\ UNCHANGED <<pipeline, cache, deleter, sealing, credentials, monitoring>>

\* the job is over and its result has been handed to the queue
BulkFinish ==
  /\ bulk.pc = "returned"
  /\ bulk' = IdleBulk
  /\ UNCHANGED <<pipeline, cache, deleter, sealing, credentials, monitoring>>

\* a deletion worker over any cache content and any state of the account
InitDelete ==
  /\ InitPipeline
  /\ acct \in {"nocred", "linked"}
  /\ cache \in SUBSET DelIds
  /\ bulk = IdleBulk
  /\ deleter = IdleDelete
  /\ vault = IdleVault
  /\ instance = FALSE
  /\ cred = NoCredential
  /\ accounts = [a \in AccountIds |-> NoAccount]
  /\ audit = <<>>
  /\ validator = IdleValidator

NextDelete ==
  \/ \E l \in Lists : BulkStart(l)
  \/ \E k \in 1..DeleteBatchSize : ItemFind(k)
  \/ \E k \in 1..DeleteBatchSize : ItemAccount(k)
  \/ \E k \in 1..DeleteBatchSize, ok \in BOOLEAN : ItemApi(k, ok)
  \/ \E k \in 1..DeleteBatchSize : ItemRemove(k)
  \/ \E k \in 1..DeleteBatchSize : ItemAudit(k)
  \/ BulkAfterBatch
  \/ BulkDelay
  \/ BulkProgress
  \/ BulkFinish

(* ---------------- PostDeletionProcessor: a single delete job ---------------- *)
\* addDeleteJob, and Bull hands the job to handleDelete
AddDeleteJob(id) ==
  /\ deleter.pc = "idle"
  /\ deleter' = [IdleDelete EXCEPT !.pc = "find", !.postId = id, !.runs = 1]
  /\ UNCHANGED <<pipeline, cache, bulk, sealing, credentials, monitoring>>

DeleteFindThrows ==
  /\ deleter.pc = "find"
  /\ deleter' = [deleter EXCEPT !.pc = IF deleter.postId \in cache
                                         THEN "threads" ELSE "catch"]
  /\ UNCHANGED <<pipeline, cache, bulk, sealing, credentials, monitoring>>

\* handleDelete: findOne in the cache; no row counts as already deleted
DeleteFind ==
  /\ deleter.pc = "find"
  /\ deleter' = IF deleter.postId \in cache
                  THEN [deleter EXCEPT !.pc = "threads"]
                  ELSE [deleter EXCEPT !.pc = "returned", !.result = "success"]
  /\ UNCHANGED <<pipeline, cache, bulk, sealing, credentials, monitoring>>

\* handleDelete: the account with its credential, then
\* threadsApiService.deletePost, which answers or throws
DeleteThreads(ok) ==
  /\ deleter.pc = "threads"
  /\ deleter' = IF acct # "linked" THEN [deleter EXCEPT !.pc = "catch"]
                ELSE [deleter EXCEPT !.calls = @ + 1,
                                     !.pc = IF ok THEN "remove" ELSE "catch"]
  /\ UNCHANGED <<pipeline, cache, bulk, sealing, credentials, monitoring>>

\* handleDelete: remove the cache row, write the audit entry, return
DeleteRemove ==
  /\ deleter.pc = "remove"
  /\ cache' = cache \ {deleter.postId}
  /\ deleter' = [deleter EXCEPT
        !.pc = "returned", !.result = "success",
        !.audit = Append(@, [action |-> "POST_DELETED", success |-> TRUE])]
  /\ UNCHANGED <<pipeline, bulk, sealing, credentials, monitoring>>

\* handleDelete's catch: re-throw while retryCount < 3, and Bull runs the job
\* again with the same data unless this was its third attempt; otherwise the
\* failure entry and a result with success false
DeleteCatch ==
  /\ deleter.pc = "catch"
  /\ deleter' =
       IF Rethrows(deleter.retryCount)
         THEN IF deleter.attemptsMade + 1 < DeleteAttempts
                THEN [deleter EXCEPT !.pc = "find", !.attemptsMade = @ + 1,
                                     !.runs = @ + 1]
                ELSE [deleter EXCEPT !.pc = "failed", !.attemptsMade = @ + 1]
         ELSE [deleter EXCEPT
                 !.pc = "returned", !.result = "failure",
                 !.audit = Append(@, [action |-> "POST_DELETED", success |-> FALSE])]
  /\ UNCHANGED <<pipeline, cache, bulk, sealing, credentials, monitoring>>

\* the job has left the queue's active set: completed, or kept as failed
DeleteSettle ==
  /\ deleter.pc \in {"returned", "failed"}
  /\ deleter' = IdleDelete
  /\ UNCHANGED <<pipeline, cache, bulk, sealing, credentials, monitoring>>

NextSingleDelete ==
  \/ \E id \in DelIds : AddDeleteJob(id)
  \/ DeleteFind
  \/ \E ok \in BOOLEAN : DeleteThreads(ok)
  \/ DeleteRemove
  \/ DeleteCatch
  \/ DeleteSettle

(* ---------------- Credential vault: encodings ---------------- *)
\* A string is the sequence of its code points, a buffer the sequence of its
\* bytes.
RECURSIVE Flatten(_)
Flatten(ss) == IF ss = <<>> THEN <<>> ELSE Head(ss) \o Flatten(Tail(ss))

\* string.split(sep): the pieces between the separators
RECURSIVE SplitOn(_, _, _)
SplitOn(s, sep, piece) ==
  IF s = <<>> THEN <<piece>>
  ELSE IF Head(s) = sep THEN <<piece>> \o SplitOn(Tail(s), sep, <<>>)
  ELSE SplitOn(Tail(s), sep, Append(piece, Head(s)))

Split(s, sep) == SplitOn(s, sep, <<>>)

\* parts.join(sep)
RECURSIVE Join(_, _)
Join(ps, sep) ==
  IF Len(ps) = 1 THEN ps[1] ELSE ps[1] \o <<sep>> \o Join(Tail(ps), sep)

\* the characters 0..9 and a..f
HexDigits ==
  <<48, 49, 50, 51, 52, 53, 54, 55, 56, 57, 97, 98, 99, 100, 101, 102>>

ToHexUnpadded(bytes) ==
  Flatten([i \in DOMAIN bytes |->
             IF bytes[i] < 16 THEN <<HexDigits[bytes[i] + 1]>>
             ELSE <<HexDigits[(bytes[i] \div 16) + 1], HexDigits[(bytes[i] % 16) + 1]>>])

\* buffer.toString("hex")
ToHex(bytes) ==
  Flatten([i \in DOMAIN bytes |->
             <<HexDigits[(bytes[i] \div 16) + 1], HexDigits[(bytes[i] % 16) + 1]>>])

\* the value of a hexadecimal digit, -1 for any other character
HexVal(c) ==
  IF \E v \in DOMAIN HexDigits : HexDigits[v] = c
    THEN (CHOOSE v \in DOMAIN HexDigits : HexDigits[v] = c) - 1
    ELSE -1

\* Buffer.from(s, "hex"): decoding stops at the first pair that is not
\* hexadecimal, and a single trailing character is dropped
RECURSIVE FromHex(_)
FromHex(s) ==
  IF Len(s) < 2 \/ HexVal(s[1]) < 0 \/ HexVal(s[2]) < 0 THEN <<>>
  ELSE <<16 * HexVal(s[1]) + HexVal(s[2])>> \o FromHex(SubSeq(s, 3, Len(s)))

\* UTF-8 of one code point
Utf8Of(cp) ==
  IF cp < 128 THEN <<cp>>
  ELSE IF cp < 2048 THEN <<192 + (cp \div 64), 128 + (cp % 64)>>
  ELSE IF cp < 65536
    THEN <<224 + (cp \div 4096), 128 + ((cp \div 64) % 64), 128 + (cp % 64)>>
  ELSE <<240 + (cp \div 262144), 128 + ((cp \div 4096) % 64),
         128 + ((cp \div 64) % 64), 128 + (cp % 64)>>

\* a string, as its code points, in UTF-8
Utf8(text) == Flatten([i \in DOMAIN text |-> Utf8Of(text[i])])

\* a continuation byte at position i
Cont(b, i) == i <= Len(b) /\ b[i] >= 128 /\ b[i] < 192

Replacement == 65533

\* UTF-8 decoding; a malformed byte decodes to U+FFFD
RECURSIVE FromUtf8(_)
FromUtf8(b) ==
  IF b = <<>> THEN <<>>
  ELSE IF b[1] < 128 THEN <<b[1]>> \o FromUtf8(Tail(b))
  ELSE IF b[1] >= 192 /\ b[1] < 224 /\ Cont(b, 2)
    THEN <<(b[1] - 192) * 64 + (b[2] - 128)>> \o FromUtf8(SubSeq(b, 3, Len(b)))
  ELSE IF b[1] >= 224 /\ b[1] < 240 /\ Cont(b, 2) /\ Cont(b, 3)
    THEN <<(b[1] - 224) * 4096 + (b[2] - 128) * 64 + (b[3] - 128)>>
         \o FromUtf8(SubSeq(b, 4, Len(b)))
  ELSE IF b[1] >= 240 /\ b[1] < 248 /\ Cont(b, 2) /\ Cont(b, 3) /\ Cont(b, 4)
    THEN <<(b[1] - 240) * 262144 + (b[2] - 128) * 4096
           + (b[3] - 128) * 64 + (b[4] - 128)>>
         \o FromUtf8(SubSeq(b, 5, Len(b)))
  ELSE <<Replacement>> \o FromUtf8(Tail(b))

(* ---------------- Credential vault: AES-256-GCM ---------------- *)
\* The cipher is a stand-in with the shape of AES-GCM: a key stream that
\* depends on key, IV and position is XOR-ed onto the text, and the tag
\* depends on the key and on every byte of the IV and of the ciphertext.
RECURSIVE Xor(_, _)
Xor(a, b) ==
  IF a = 0 THEN b
  ELSE IF b = 0 THEN a
  ELSE ((a + b) % 2) + 2 * Xor(a \div 2, b \div 2)

RECURSIVE Weigh(_, _)
Weigh(bytes, i) ==
  IF i > Len(bytes) THEN 31 * Len(bytes)
  ELSE (2 * i + 1) * bytes[i] + Weigh(bytes, i + 1)

\* cipher.update + cipher.final, and decipher.update + decipher.final
Cipher(key, iv, bytes) ==
  [i \in DOMAIN bytes |-> Xor(bytes[i], (key + Weigh(iv, 1) + 13 * i) % 256)]

\* cipher.getAuthTag(): 16 bytes
AuthTag(key, iv, ct) ==
  [j \in 1..TagBytes |->
     ((key + Weigh(iv, 1) + 3 * Weigh(ct, 1)) * (2 * j + 1) + j) % 256]

\* crypto.randomBytes(16): one of the IVs the model draws
Iv(seed) == [i \in 1..IvBytes |-> (37 * seed + 11 * i) % 256]

\* the tag lengths decipher.setAuthTag accepts for GCM when the decipher
\* was created without authTagLength
ValidTagLengths == {4, 8, 12, 13, 14, 15, 16}

Error == [ok |-> FALSE, text |-> <<>>]
Ok(text) == [ok |-> TRUE, text |-> text]

\* createDecipheriv, setAuthTag, update, final: final verifies as many
\* bytes of the tag as setAuthTag was given
Open(key, iv, tag, ct) ==
  IF iv = <<>> THEN Error
  ELSE IF Len(tag) \notin ValidTagLengths THEN Error
  ELSE IF SubSeq(AuthTag(key, iv, ct), 1, Len(tag)) # tag THEN Error
  ELSE Ok(FromUtf8(Cipher(key, iv, ct)))

\* the three hexadecimal parts of a sealed value
Seal(key, iv, text) ==
  LET ct == Cipher(key, iv, Utf8(text))
  IN [encrypted |-> ToHex(ct), iv |-> ToHex(iv), tag |-> ToHex(AuthTag(key, iv, ct))]

Colon == 58

\* CryptoHelper.encrypt: IV:AuthTag:Encrypted
HelperEncrypt(text, iv) ==
  LET e == Seal(HelperKey, iv, text)
  IN Join(<<e.iv, e.tag, e.encrypted>>, Colon)

\* CryptoHelper.decrypt
HelperDecrypt(encryptedData) ==
  LET parts == Split(encryptedData, Colon)
  IN IF Len(parts) # 3 THEN Error
     ELSE Open(HelperKey, FromHex(parts[1]), FromHex(parts[2]), FromHex(parts[3]))

\* CryptoService.encrypt: the EncryptedData envelope
ServiceEncrypt(text, iv) ==
  LET e == Seal(MasterKey, iv, text)
  IN [encrypted |-> e.encrypted, iv |-> e.iv, tag |-> e.tag,
      keyId |-> Json.localDevKey]

\* CryptoService.decrypt
ServiceDecrypt(env) ==
  Open(MasterKey, FromHex(env.iv), FromHex(env.tag), FromHex(env.encrypted))

\* JSON.stringify of an envelope, as the sequence of its tokens
Stringify(env) ==
  <<Json.brace, Json.encrypted, env.encrypted, Json.iv, env.iv,
    Json.tag, env.tag, Json.keyId, env.keyId, Json.brace>>

\* the stored form of a string that is no envelope
Plain(text) == <<text>>

\* CryptoService.encryptForStorage
encryptForStorage(text, iv) == Stringify(ServiceEncrypt(text, iv))

\* CryptoService.decryptFromStorage: JSON.parse, then decrypt; a stored
\* value that is no envelope has none of the fields decrypt reads
decryptFromStorage(stored) ==
  IF /\ Len(stored) = 10
     /\ stored[1] = Json.brace /\ stored[2] = Json.encrypted
     /\ stored[4] = Json.iv /\ stored[6] = Json.tag
     /\ stored[8] = Json.keyId /\ stored[10] = Json.brace
    THEN ServiceDecrypt([encrypted |-> stored[3], iv |-> stored[5],
                         tag |-> stored[7], keyId |-> stored[9]])
    ELSE Error

(* ---------------- Credential vault: sealing and opening ---------------- *)
\* the characters of the plaintexts: a colon, e-acute, hiragana a and an
\* emoji, of one to four bytes in UTF-8
Texts == UNION {[1..n -> {58, 233, 12354, 128272}] : n \in 0..MaxText}

\* the IV, tag and ciphertext of a sealed value
Parts(scheme, sealed) ==
  IF scheme = "helper"
    THEN LET p == Split(sealed, Colon) IN [iv |-> p[1], tag |-> p[2], encrypted |-> p[3]]
  ELSE IF scheme = "service"
    THEN [iv |-> sealed.iv, tag |-> sealed.tag, encrypted |-> sealed.encrypted]
  ELSE [iv |-> sealed[5], tag |-> sealed[7], encrypted |-> sealed[3]]

\* the sealed value with its parts replaced
Rebuild(scheme, p) ==
  IF scheme = "helper" THEN Join(<<p.iv, p.tag, p.encrypted>>, Colon)
  ELSE LET env == [encrypted |-> p.encrypted, iv |-> p.iv, tag |-> p.tag,
                   keyId |-> Json.localDevKey]
       IN IF scheme = "service" THEN env ELSE Stringify(env)

\* encrypt(text) with a fresh IV
VaultEncrypt(scheme, text, seed) ==
  /\ vault.pc = "idle"
  /\ vault' = [IdleVault EXCEPT
       !.pc = "sealed", !.scheme = scheme, !.text = text,
       !.sealed = IF scheme = "helper" THEN HelperEncrypt(text, Iv(seed))
                  ELSE IF scheme = "service" THEN ServiceEncrypt(text, Iv(seed))
                  ELSE encryptForStorage(text, Iv(seed))]
  /\ UNCHANGED <<pipeline, deletion, credentials, monitoring>>

\* one character of one part of the sealed value is replaced by another
VaultTamper(part, pos, ch) ==
  /\ vault.pc = "sealed" /\ vault.altered = "none"
  /\ LET p == Parts(vault.scheme, vault.sealed)
     IN /\ pos \in DOMAIN p[part]
        /\ p[part][pos] # ch
        /\ vault' = [vault EXCEPT
              !.altered = part,
              !.sealed = Rebuild(vault.scheme, [p EXCEPT ![part][pos] = ch])]
  /\ UNCHANGED <<pipeline, deletion, credentials, monitoring>>

\* the sealed value is replaced by the bare text, which has no sealed format
VaultGarble ==
  /\ vault.pc = "sealed" /\ vault.altered = "none"
  /\ vault.scheme # "service"
  /\ vault' = [vault EXCEPT
        !.altered = "format",
        !.sealed = IF vault.scheme = "helper" THEN vault.text ELSE Plain(vault.text)]
  /\ UNCHANGED <<pipeline, deletion, credentials, monitoring>>

\* decrypt(sealed): a result with ok = FALSE is the error the call raises
VaultDecrypt ==
  /\ vault.pc = "sealed"
  /\ vault' = [vault EXCEPT
        !.pc = "opened",
        !.out = IF vault.scheme = "helper" THEN HelperDecrypt(vault.sealed)
                ELSE IF vault.scheme = "service" THEN ServiceDecrypt(vault.sealed)
                ELSE decryptFromStorage(vault.sealed)]
  /\ UNCHANGED <<pipeline, deletion, credentials, monitoring>>

VaultDone ==
  /\ vault.pc = "opened"
  /\ vault' = IdleVault
  /\ UNCHANGED <<pipeline, deletion, credentials, monitoring>>

NextVault ==
  \/ \E scheme \in {"helper", "service", "storage"}, text \in Texts,
        seed \in 1..MaxIvs : VaultEncrypt(scheme, text, seed)
  \* the characters a replacement puts in: f and X
  \/ \E part \in {"iv", "tag", "encrypted"}, pos \in 1..(2 * TagBytes),
        ch \in {102, 88} : VaultTamper(part, pos, ch)
  \/ VaultGarble
  \/ VaultDecrypt
  \/ VaultDone

(* ---------------- Credential columns: the transformer ---------------- *)
\* A column value is a string in its stored form: the JSON envelope, or
\* Plain(text) for a text that is no envelope.
Undefined == <<>>

\* the secrets a caller supplies: never empty (IsNotEmpty on the DTOs)
Secrets == {<<233>>, <<12354, 58>>}

ColumnSeed == [clientIdEnc |-> 0, clientSecretEnc |-> 1, accessTokenEnc |-> 2]

\* EncryptedColumnTransformer.to
To(value, inst, seed) ==
  IF value = Undefined \/ value = Plain(<<>>) \/ ~inst THEN value
  ELSE encryptForStorage(value[1], Iv(seed))

FromRethrows(value, inst) ==
  IF value = Undefined \/ value = Plain(<<>>) \/ ~inst
    THEN [raised |-> FALSE, value |-> value]
  ELSE LET r == decryptFromStorage(value)
       IN IF r.ok THEN [raised |-> FALSE, value |-> Plain(r.text)]
          ELSE [raised |-> TRUE, value |-> Undefined]

\* EncryptedColumnTransformer.from: a failed decryption is caught and logged
From(value, inst) ==
  IF value = Undefined \/ value = Plain(<<>>) \/ ~inst
    THEN [raised |-> FALSE, value |-> value]
  ELSE LET r == decryptFromStorage(value)
       IN IF r.ok THEN [raised |-> FALSE, value |-> Plain(r.text)]
          ELSE [raised |-> FALSE, value |-> Undefined]

\* the module-level setter is called with the encryption service
setCryptoServiceInstance ==
  /\ ~instance
  /\ instance' = TRUE
  /\ UNCHANGED <<pipeline, deletion, sealing, cred, monitoring>>

\* linkAccount: create and save the Credential
SaveCredential(clientId, clientSecret, accessToken, seed) ==
  /\ ~cred.exists
  /\ LET given == [clientIdEnc |-> clientId, clientSecretEnc |-> clientSecret,
                   accessTokenEnc |-> accessToken]
     IN cred' = [NoCredential EXCEPT
          !.exists = TRUE, !.op = "save", !.wired = instance,
          !.secrets = given,
          !.columns = [c \in ColumnNames |->
                         To(Plain(given[c]), instance, seed + ColumnSeed[c])]]
  /\ UNCHANGED <<pipeline, deletion, sealing, instance, monitoring>>

\* findOne: every column is read through from()
LoadCredential ==
  /\ cred.exists
  /\ LET r == [c \in ColumnNames |-> From(cred.columns[c], instance)]
     IN cred' = [cred EXCEPT
          !.op = "load", !.wired = instance, !.column = "none",
          !.entity = [c \in ColumnNames |-> r[c].value],
          !.raised = \E c \in ColumnNames : r[c].raised]
  /\ UNCHANGED <<pipeline, deletion, sealing, instance, monitoring>>

\* rotateCredentials on the loaded entity: the access token is always
\* assigned, client id and secret when given; the assigned columns are written
RotateCredentials(clientId, clientSecret, accessToken, seed) ==
  /\ cred.exists /\ cred.op = "load"
  /\ LET given == [clientIdEnc |-> clientId, clientSecretEnc |-> clientSecret,
                   accessTokenEnc |-> accessToken]
         assigned == {c \in ColumnNames : given[c] # Undefined}
     IN cred' = [cred EXCEPT
          !.op = "save", !.wired = instance,
          !.secrets = [c \in ColumnNames |->
                         IF c \in assigned THEN given[c] ELSE cred.secrets[c]],
          !.entity = [c \in ColumnNames |->
                         IF c \in assigned THEN Plain(given[c]) ELSE cred.entity[c]],
          !.columns = [c \in ColumnNames |->
                         IF c \in assigned
                           THEN To(Plain(given[c]), instance, seed + ColumnSeed[c])
                           ELSE cred.columns[c]]]
  /\ UNCHANGED <<pipeline, deletion, sealing, instance, monitoring>>

\* the explicit service call on a stored column value
DecryptColumnData(c) ==
  /\ cred.exists
  /\ cred' = [cred EXCEPT
        !.op = "decrypt", !.column = c,
        !.raised = ~decryptFromStorage(cred.columns[c]).ok]
  /\ UNCHANGED <<pipeline, deletion, sealing, instance, monitoring>>

\* unlinkAccount: the row goes with its account
RemoveCredential ==
  /\ cred.exists
  /\ cred' = NoCredential
  /\ UNCHANGED <<pipeline, deletion, sealing, instance, monitoring>>

NextCredential ==
  \/ setCryptoServiceInstance
  \/ \E a \in Secrets, b \in Secrets, t \in Secrets, seed \in 1..MaxIvs :
       SaveCredential(a, b, t, seed)
  \/ LoadCredential
  \/ \E a \in Secrets \cup {Undefined}, b \in Secrets \cup {Undefined},
        t \in Secrets, seed \in 1..MaxIvs : RotateCredentials(a, b, t, seed)
  \/ \E c \in ColumnNames : DecryptColumnData(c)
  \/ RemoveCredential

(* ---------------- Token health monitor ---------------- *)
DaysFloor(expiresAt, t) == (expiresAt - t) \div DayLength

\* daysUntilExpiry: Math.ceil of the time left over the length of a day
Days(expiresAt, t) == -((t - expiresAt) \div DayLength)

ExpiredInThePast(days) == days < 0

\* "already expired"
Expired(days) == days <= 0

\* the rows of the given accounts as entities, in identity order
RECURSIVE Load(_)
Load(ids) ==
  IF ids = {} THEN <<>>
  ELSE LET a == CHOOSE x \in ids : \A y \in ids : x <= y
       IN <<[id |-> a, row |-> accounts[a], days |-> Null, at |-> Null]>>
          \o Load(ids \ {a})

\* accountRepository.save(account): the fields of the Account entity
SaveAccount(e, by) ==
  [accounts EXCEPT ![e.id] =
     [@ EXCEPT !.status = e.row.status,
               !.lastHealthCheckError = e.row.lastHealthCheckError,
               !.lastHealthCheckAt = e.row.lastHealthCheckAt,
               !.savedBy = by]]

\* createAuditLog
Entry(action, e, success, days) ==
  [action |-> action, targetId |-> e.id, success |-> success,
   daysUntilExpiry |-> days, at |-> validator.clock]

\* a sweep starts with the entities its find returned
Started(found, pc) ==
  [IdleSweep EXCEPT !.todo = found, !.startedAt = validator.clock,
                    !.before = [a \in AccountIds |-> accounts[a].status],
                    !.pc = IF found = <<>> THEN "done" ELSE pc]

AdvanceUntilFailure(sw, pc) ==
  [sw EXCEPT !.todo = Tail(sw.todo),
             !.handled = Append(sw.handled, Head(sw.todo)),
             !.pc = IF Len(sw.todo) > 1
                       /\ Head(sw.todo).row.status # AccountStatus.ERROR
                      THEN pc ELSE "done"]

\* the loop moves to the next entity, or the sweep has finished
Advance(sw, pc) ==
  [sw EXCEPT !.todo = Tail(sw.todo),
             !.handled = Append(sw.handled, Head(sw.todo)),
             !.pc = IF Len(sw.todo) > 1 THEN pc ELSE "done"]

ClockTick ==
  /\ validator.clock < MaxClock
  /\ validator' = [validator EXCEPT !.clock = @ + 1]
  /\ UNCHANGED <<pipeline, deletion, sealing, credentials, accounts, audit>>

\* checkExpiringTokens: the find
ExpiryFind ==
  /\ validator.hourly.pc = "idle"
  /\ validator.sweeps < MaxSweeps
  /\ LET threshold == validator.clock + WindowDays * DayLength
         found == Load({a \in AccountIds :
                          /\ accounts[a].credential
                          /\ accounts[a].expiresAt # Null
                          /\ accounts[a].expiresAt < threshold})
     IN validator' = [validator EXCEPT
          !.sweeps = @ + 1,
          !.hourly = Started(found, "handle")]
  /\ UNCHANGED <<pipeline, deletion, sealing, credentials, accounts, audit>>

\* handleExpiringToken: the day count, and the save of the AccountStatus.WARNING status
ExpiryHandle ==
  /\ validator.hourly.pc = "handle"
  /\ LET sw == validator.hourly
         e == Head(sw.todo)
         days == Days(e.row.expiresAt, validator.clock)
         warned == [e EXCEPT !.row.status = AccountStatus.WARNING,
                             !.row.lastHealthCheckError = "expires",
                             !.days = days, !.at = validator.clock]
         seen == [e EXCEPT !.days = days, !.at = validator.clock]
     IN IF days <= WarnDays
          THEN /\ accounts' = SaveAccount(warned, "hourly")
               /\ validator' = [validator EXCEPT
                    !.hourly = [sw EXCEPT !.todo[1] = warned,
                                   !.pc = "warnAudit"]]
          ELSE /\ accounts' = accounts
               /\ validator' = [validator EXCEPT
                    !.hourly = Advance([sw EXCEPT !.todo[1] = seen], "handle")]
  /\ UNCHANGED <<pipeline, deletion, sealing, credentials, audit>>

\* handleExpiringToken: the TOKEN_EXPIRY_WARNING entry
ExpiryWarnAudit ==
  /\ validator.hourly.pc = "warnAudit"
  /\ LET sw == validator.hourly
         e == Head(sw.todo)
     IN /\ audit' = Append(audit, Entry("TOKEN_EXPIRY_WARNING", e, TRUE, e.days))
        /\ validator' = [validator EXCEPT
             !.hourly = IF Expired(e.days) THEN [sw EXCEPT !.pc = "expiredSave"]
                        ELSE Advance(sw, "handle")]
  /\ UNCHANGED <<pipeline, deletion, sealing, credentials, accounts>>

\* handleExpiringToken: the save of the AccountStatus.ERROR status
ExpiredSave ==
  /\ validator.hourly.pc = "expiredSave"
  /\ LET sw == validator.hourly
         e == [Head(sw.todo) EXCEPT !.row.status = AccountStatus.ERROR,
                                    !.row.lastHealthCheckError = "expired"]
     IN /\ accounts' = SaveAccount(e, "hourly")
        /\ validator' = [validator EXCEPT
             !.hourly = [sw EXCEPT !.todo[1] = e,
                                   !.pc = "expiredAudit"]]
  /\ UNCHANGED <<pipeline, deletion, sealing, credentials, audit>>

\* handleExpiringToken: the TOKEN_EXPIRED entry
ExpiredAudit ==
  /\ validator.hourly.pc = "expiredAudit"
  /\ LET sw == validator.hourly
     IN /\ audit' = Append(audit, Entry("TOKEN_EXPIRED", Head(sw.todo), TRUE, Null))
        /\ validator' = [validator EXCEPT !.hourly = Advance(sw, "handle")]
  /\ UNCHANGED <<pipeline, deletion, sealing, credentials, accounts>>

\* the sweep returns
SweepDone(sweep) ==
  /\ validator[sweep].pc = "done"
  /\ validator' = [validator EXCEPT ![sweep] = IdleSweep]
  /\ UNCHANGED <<pipeline, deletion, sealing, credentials, accounts, audit>>

\* validateAllTokens: the find
ValidateFind ==
  /\ validator.daily.pc = "idle"
  /\ validator.sweeps < MaxSweeps
  /\ LET found == Load({a \in AccountIds : accounts[a].status = AccountStatus.ACTIVE})
     IN validator' = [validator EXCEPT
          !.sweeps = @ + 1,
          !.daily = Started(found, "validate")]
  /\ UNCHANGED <<pipeline, deletion, sealing, credentials, accounts, audit>>

\* validateToken: the introspection call and the save that follows it
ValidateToken ==
  /\ validator.daily.pc = "validate"
  /\ LET sw == validator.daily
         e == Head(sw.todo)
         tokenInfo == accounts[e.id]
         failed(why) == [e EXCEPT !.row.status = AccountStatus.ERROR,
                                  !.row.lastHealthCheckError = why,
                                  !.row.lastHealthCheckAt = validator.clock]
         refreshed == IF tokenInfo.expires_at # Null
                        THEN [accounts EXCEPT
                                ![e.id].expiresAt = tokenInfo.expires_at,
                                ![e.id].lastVerifiedAt = validator.clock]
                        ELSE accounts
         recovered == [e EXCEPT !.row.status = AccountStatus.ACTIVE,
                                !.row.lastHealthCheckError = "none",
                                !.row.lastHealthCheckAt = validator.clock]
     IN IF ~e.row.credential
          THEN /\ accounts' = accounts
               /\ validator' = [validator EXCEPT !.daily = Advance(sw, "validate")]
        ELSE IF tokenInfo.isValid = "throws"
          THEN /\ accounts' = SaveAccount(failed("apierror"), "daily")
               /\ validator' = [validator EXCEPT
                    !.daily = [sw EXCEPT !.todo[1] = failed("apierror"),
                                   !.pc = "failAudit"]]
        ELSE IF tokenInfo.isValid = "false"
          THEN /\ accounts' = SaveAccount(failed("invalid"), "daily")
               /\ validator' = [validator EXCEPT
                    !.daily = [sw EXCEPT !.todo[1] = failed("invalid"),
                                   !.pc = "failAudit"]]
        ELSE IF e.row.status = AccountStatus.ERROR
          THEN /\ accounts' = [refreshed EXCEPT
                    ![e.id].status = AccountStatus.ACTIVE,
                    ![e.id].lastHealthCheckError = "none",
                    ![e.id].lastHealthCheckAt = validator.clock,
                    ![e.id].savedBy = "daily"]
               /\ validator' = [validator EXCEPT
                    !.daily = Advance([sw EXCEPT !.todo[1] = recovered], "validate")]
        ELSE /\ accounts' = refreshed
             /\ validator' = [validator EXCEPT !.daily = Advance(sw, "validate")]
  /\ UNCHANGED <<pipeline, deletion, sealing, credentials, audit>>

\* validateToken: the TOKEN_VALIDATION_FAILED entry
ValidateFailAudit ==
  /\ validator.daily.pc = "failAudit"
  /\ LET sw == validator.daily
     IN /\ audit' = Append(audit, Entry("TOKEN_VALIDATION_FAILED", Head(sw.todo),
                                        FALSE, Null))
        /\ validator' = [validator EXCEPT !.daily = Advance(sw, "validate")]
  /\ UNCHANGED <<pipeline, deletion, sealing, credentials, accounts>>

\* the accounts the monitor finds when it starts. Stored expiry: none, or 0,
\* 1.5 and 3 days from the start of the clock. The introspection API answers
\* is_valid with or without expires_at (7 days from the start), or throws.
AccountRows ==
  {[NoAccount EXCEPT !.status = st, !.credential = TRUE, !.expiresAt = ex,
                     !.isValid = info[1], !.expires_at = info[2]] :
     st \in {AccountStatus.ACTIVE, AccountStatus.ERROR}, ex \in {Null, 0, 3, 6},
     info \in {<<"true", Null>>, <<"true", 14>>, <<"false", Null>>,
               <<"throws", Null>>}}
  \cup {NoAccount}

InitMonitor ==
  /\ InitPipeline /\ acct = "none"
  /\ cache = {} /\ bulk = IdleBulk /\ deleter = IdleDelete /\ vault = IdleVault
  /\ instance = FALSE /\ cred = NoCredential
  /\ accounts \in [AccountIds -> AccountRows]
  /\ audit = <<>>
  /\ validator = IdleValidator

NextMonitor ==
  \/ ClockTick
  \/ ExpiryFind
  \/ ExpiryHandle
  \/ ExpiryWarnAudit
  \/ ExpiredSave
  \/ ExpiredAudit
  \/ ValidateFind
  \/ ValidateToken
  \/ ValidateFailAudit
  \/ \E sweep \in {"hourly", "daily"} : SweepDone(sweep)

(* ======================= properties ======================= *)
Live == {"waiting", "delayed", "active"}
Queued == {"waiting", "delayed"}

JobsOf(q, p, states) ==
  Cardinality({i \in DOMAIN q : q[i].id = p /\ q[i].state \in states})

\* the post the poll cycle is handling
Current == Head(poller.batch)

\* C1: in every reachable state the stored attempts counter of every post
\* is at most 3.
C1_AttemptsAtMostMax ==
  \A p \in PostIds : posts[p].exists => posts[p].attempts <= MaxAttempts

\* a post that failed on the attempt numbered 3
C1_Witness ==
  \E p \in PostIds :
    /\ posts[p].exists
    /\ posts[p].status = FAILED
    /\ posts[p].attempts = MaxAttempts

AttemptNumbers == 0..MaxAttempts
Delays == 0..MaxNow

\* C3: adding a publish job twice for the same post, before a worker has
\* taken the first, leaves at most one waiting or delayed job for that post.
C3_DoubleAddCollapses ==
  \A p \in PostIds, a1, a2 \in AttemptNumbers, d1, d2 \in Delays :
    JobsOf(queue, p, {"active"}) = 0
    => JobsOf(addPublishJob(addPublishJob(queue, p, a1, d1, now, PublishData(posts[p])),
                            p, a2, d2, now, PublishData(posts[p])),
              p, Queued) <= 1

\* the poll cycle has just enqueued for a post whose job from createPost is
\* still queued: the second add was collapsed into the first
C3_Witness ==
  /\ poller.pc = "save"
  /\ JobsOf(queue, Current.id, Queued) = 1
  /\ \E i \in DOMAIN queue :
       /\ queue[i].id = Current.id
       /\ queue[i].attemptNumber # Current.row.attempts + 1

\* C4: every post has at most one publish job that is waiting, delayed or
\* executing.
C4_OneLiveJobPerPost ==
  \A p \in PostIds : JobsOf(queue, p, Live) <= 1

\* updatePost has removed the job of a post and added it again while a poll
\* cycle was enqueuing for the same post
C4_Witness ==
  /\ api.op = "update" /\ api.pc = "done" /\ api.result = "ok"
  /\ api.scheduledFor # Null
  /\ poller.pc = "save" /\ Current.id = api.id
  /\ JobsOf(queue, api.id, Live) = 1

C6_CancelledIsTerminal ==
  [][\A p \in PostIds :
       (posts[p].exists /\ posts[p].status = CANCELLED /\ posts'[p].exists)
       => posts'[p].status = CANCELLED]_vars

\* C7: every COMPLETED post has an external identity and a publication time.
C7_CompletedHasIdentity ==
  \A p \in PostIds :
    (posts[p].exists /\ posts[p].status = COMPLETED)
    => posts[p].externalPostId # Null /\ posts[p].publishedAt # Null

\* a post published by the worker
C7_Witness ==
  \E p \in PostIds :
    posts[p].exists /\ posts[p].status = COMPLETED /\ writer[p] = "worker"

Edges ==
  {<<PENDING, PROCESSING>>, <<SCHEDULED, PROCESSING>>, <<FAILED, PROCESSING>>,
   <<PROCESSING, COMPLETED>>, <<PROCESSING, FAILED>>, <<SCHEDULED, CANCELLED>>}

\* C8: every change of a post's status is an edge of the state graph, and
\* only the poller and the publish worker write PROCESSING, COMPLETED or FAILED.
C8_StatusFollowsGraph ==
  [][\A p \in PostIds :
       (posts[p].exists /\ posts'[p].exists /\ posts'[p].status # posts[p].status)
       => /\ <<posts[p].status, posts'[p].status>> \in Edges
          /\ posts'[p].status \in {PROCESSING, COMPLETED, FAILED}
               => writer'[p] \in {"poller", "worker"}]_vars

\* C9: once COMPLETED, a post keeps its status, external identity and
\* publication time.
C9_CompletedIsTerminal ==
  [][\A p \in PostIds :
       (posts[p].exists /\ posts[p].status = COMPLETED /\ posts'[p].exists)
       => /\ posts'[p].status = COMPLETED
          /\ posts'[p].externalPostId = posts[p].externalPostId
          /\ posts'[p].publishedAt = posts[p].publishedAt]_vars

\* C10: a save by the poller never replaces a status the worker wrote after
\* the poller read the row, and a save by the worker never replaces a status
\* the poller wrote after the worker read the row.
C10_NoLostUpdate ==
  [][/\ (poller.pc = "save" /\ poller' # poller /\ posts' # posts)
        => ~(/\ writer[Current.id] = "worker"
             /\ posts[Current.id].status # Current.row.status
             /\ posts'[Current.id].status # posts[Current.id].status)
     /\ (worker.pc \in {"saveProcessing", "saveCompleted", "catchSave"}
           /\ worker' # worker /\ posts' # posts)
        => ~(/\ writer[worker.id] = "poller"
             /\ posts[worker.id].status # worker.row.status
             /\ posts'[worker.id].status # posts[worker.id].status)]_vars

C12_ThreeFailuresExhaust ==
  \A i \in DOMAIN queue :
    (/\ queue[i].state = "failed"
     /\ posts[queue[i].id].exists
     /\ posts[queue[i].id].status = FAILED)
    => posts[queue[i].id].attempts = MaxAttempts

Count(l, x) == Cardinality({i \in DOMAIN l : l[i] = x})
Elems(l) == {l[i] : i \in DOMAIN l}

\* the identities of results.failed
FailedIds == [i \in DOMAIN bulk.failed |-> bulk.failed[i].postId]

C15_AlteredNeverOpens ==
  (vault.pc = "opened" /\ vault.altered # "none") => ~vault.out.ok

\* C16: once a Credential has been saved, each of its three secret columns
\* holds a ciphertext of the secret assigned to it and never the secret itself,
\* from the start of the process and whenever the encryption service is set.
C16_ColumnsAreCiphertext ==
  cred.exists =>
    \A c \in ColumnNames :
      /\ cred.columns[c] # Plain(cred.secrets[c])
      /\ decryptFromStorage(cred.columns[c]) = Ok(cred.secrets[c])

\* C17: a read through from() with the service in place never raises and
\* yields undefined for every column that does not decrypt, while the explicit
\* service call on such a column raises.
C17_FromSwallowsDecryptRaises ==
  /\ (cred.op = "load" /\ cred.wired) =>
        /\ ~cred.raised
        /\ \A c \in ColumnNames :
             ~decryptFromStorage(cred.columns[c]).ok => cred.entity[c] = Undefined
  /\ (cred.op = "decrypt" /\ ~decryptFromStorage(cred.columns[cred.column]).ok)
        => cred.raised

C17_Witness ==
  /\ cred.op = "load" /\ cred.wired /\ ~cred.raised
  /\ cred.entity["clientIdEnc"] = Undefined
  /\ cred.entity["accessTokenEnc"] = Plain(cred.secrets["accessTokenEnc"])
  /\ ~decryptFromStorage(cred.columns["clientIdEnc"]).ok

\* the entities a finished sweep went through
Handled(sw) == {sw.handled[i] : i \in DOMAIN sw.handled}

Entries == {audit[i] : i \in DOMAIN audit}

\* C18: when the expiry sweep has finished, every credential it handled with
\* more than 0 and at most 3 days left has a TOKEN_EXPIRY_WARNING entry whose
\* daysUntilExpiry is the time left in days, rounded up, and its account is
\* AccountStatus.WARNING, unless the validation sweep has saved the account since.
C18_ExpiringSoonWarned ==
  validator.hourly.pc = "done" =>
    \A h \in Handled(validator.hourly) :
      LET left == h.row.expiresAt - h.at
      IN (0 < left /\ left <= WarnDays * DayLength) =>
           /\ \E n \in Entries :
                /\ n.action = "TOKEN_EXPIRY_WARNING" /\ n.targetId = h.id
                /\ n.success
                /\ n.daysUntilExpiry \in 1..WarnDays
                /\ (n.daysUntilExpiry - 1) * DayLength < left
                /\ left <= n.daysUntilExpiry * DayLength
           /\ accounts[h.id].savedBy = "hourly" => accounts[h.id].status = AccountStatus.WARNING

C18_Witness ==
  /\ validator.hourly.pc = "done"
  /\ \E h \in Handled(validator.hourly) :
       /\ h.row.expiresAt - h.at = 3
       /\ h.row.status = AccountStatus.WARNING /\ h.days = 2
       /\ accounts[h.id].status = AccountStatus.WARNING
       /\ \E n \in Entries : n.targetId = h.id /\ n.daysUntilExpiry = 2

\* C19: when the expiry sweep has finished, every credential it handled that
\* had already expired has a TOKEN_EXPIRED entry, and its account is not
\* AccountStatus.WARNING: it is AccountStatus.ERROR unless the validation sweep has saved it since.
C19_ExpiredMarkedError ==
  validator.hourly.pc = "done" =>
    \A h \in Handled(validator.hourly) :
      h.row.expiresAt <= h.at =>
        /\ \E n \in Entries : n.action = "TOKEN_EXPIRED" /\ n.targetId = h.id
        /\ accounts[h.id].status # AccountStatus.WARNING
        /\ accounts[h.id].savedBy = "hourly" => accounts[h.id].status = AccountStatus.ERROR

C19_Witness ==
  /\ validator.hourly.pc = "done"
  /\ \E h \in Handled(validator.hourly) :
       /\ h.row.expiresAt < h.at
       /\ accounts[h.id].status = AccountStatus.ERROR /\ accounts[h.id].savedBy = "hourly"
       /\ \E n \in Entries : n.action = "TOKEN_EXPIRED" /\ n.targetId = h.id
       /\ \E n \in Entries : n.action = "TOKEN_EXPIRY_WARNING" /\ n.targetId = h.id

\* C20: when the validation sweep has finished, every account that was AccountStatus.ERROR
\* when it started, has a credential and a token the API reports valid, and was
\* not saved by the expiry sweep meanwhile, is AccountStatus.ACTIVE, with lastVerifiedAt and
\* expiresAt set from the API's answer when it carries an expiry.
C20_ErrorAccountRecovers ==
  validator.daily.pc = "done" =>
    \A a \in AccountIds :
      ( /\ validator.daily.before[a] = AccountStatus.ERROR
        /\ accounts[a].credential /\ accounts[a].isValid = "true"
        /\ accounts[a].savedBy # "hourly" ) =>
          /\ accounts[a].status = AccountStatus.ACTIVE
          /\ accounts[a].expires_at # Null =>
               /\ accounts[a].expiresAt = accounts[a].expires_at
               /\ accounts[a].lastVerifiedAt # Null
               /\ accounts[a].lastVerifiedAt >= validator.daily.startedAt

\* the failure entries the validation sweep wrote for an account
ValidationFailures(a) ==
  {i \in DOMAIN audit : /\ audit[i].action = "TOKEN_VALIDATION_FAILED"
                        /\ audit[i].targetId = a /\ ~audit[i].success}

\* C21: when the validation sweep has finished, it has gone through every
\* account that was ACTIVE at its find; each of them that has a credential
\* whose token the API reports invalid, or for which the call throws, was saved
\* as ERROR and has exactly one TOKEN_VALIDATION_FAILED entry with success
\* false.
C21_FailuresMarkedAndSweepGoesOn ==
  validator.daily.pc = "done" =>
    /\ \A a \in AccountIds :
         validator.daily.before[a] = AccountStatus.ACTIVE =>
           \E h \in Handled(validator.daily) : h.id = a
    /\ \A h \in Handled(validator.daily) :
         (h.row.credential /\ accounts[h.id].isValid \in {"false", "throws"}) =>
           /\ h.row.status = AccountStatus.ERROR
           /\ accounts[h.id].savedBy = "daily" =>
                accounts[h.id].status = AccountStatus.ERROR
           /\ Cardinality(ValidationFailures(h.id)) = 1

C21_Witness ==
  /\ validator.daily.pc = "done"
  /\ Len(validator.daily.handled) = 2
  /\ accounts[1].isValid = "throws" /\ accounts[2].isValid = "false"
  /\ \A a \in AccountIds :
       /\ accounts[a].status = AccountStatus.ERROR
       /\ Cardinality(ValidationFailures(a)) = 1

\* C22: when a run of handlePublish has failed because the post, or the
\* account or its credential, could not be loaded, a POST_FAILED entry has
\* been written and the queue does not schedule the job again.
C22_LoadFailureIsPermanent ==
  [][(/\ worker.pc = "throw" /\ worker'.pc = "idle"
      /\ worker.error \in {"post not found", "account or credentials not found"})
     => /\ \E i \in DOMAIN worker.audit : worker.audit[i].action = "POST_FAILED"
        /\ JobsOf(queue', worker.id, Live) = 0]_vars

\* C23: when handlePublish hands its error to the queue and the post exists,
\* the run has saved the row as FAILED with lastError and errorDetails
\* (attempt number, message, timestamp) and has written a POST_FAILED entry.
C23_FailureRecordedBeforeRaise ==
  [][(worker.pc = "throw" /\ worker'.pc = "idle" /\ posts[worker.id].exists)
     => /\ worker.row.status = FAILED
        /\ worker.row.lastError = worker.error
        /\ worker.row.errorDetails.attemptNumber = worker.attemptNumber
        /\ worker.row.errorDetails.error = worker.error
        /\ worker.row.errorDetails.timestamp \in 0..now
        /\ \E i \in DOMAIN worker.audit :
             /\ worker.audit[i].action = "POST_FAILED"
             /\ worker.audit[i].targetId = worker.id
             /\ ~worker.audit[i].success]_vars

C23_Witness ==
  /\ worker.pc = "throw"
  /\ posts[worker.id].exists
  /\ posts[worker.id].status = FAILED
  /\ posts[worker.id].lastError = "account or credentials not found"
  /\ posts[worker.id].errorDetails.timestamp = now
  /\ Len(worker.audit) = 1

\* C24: the step of a delete job that finds no cache row for the identity
\* makes handleDelete return success: the row set is unchanged, the external
\* API has not been called, and Bull counts no failed attempt.
C24_MissingRowIsSuccess ==
  [][(deleter.pc = "find" /\ deleter.postId \notin cache)
     => /\ deleter'.pc = "returned" /\ deleter'.result = "success"
        /\ cache' = cache
        /\ deleter'.calls = 0 /\ deleter'.attemptsMade = 0]_vars

C24_Witness ==
  /\ deleter.pc = "returned" /\ deleter.result = "success"
  /\ deleter.postId \notin cache
  /\ deleter.calls = 0 /\ deleter.runs = 1 /\ deleter.audit = <<>>

\* C25: a delete job is run at most 3 times, and once it has failed for good
\* a POST_DELETED entry with success false has been written.
C25_PermanentFailureAudited ==
  /\ deleter.runs <= DeleteAttempts
  /\ deleter.pc = "failed" =>
       \E i \in DOMAIN deleter.audit :
         deleter.audit[i].action = "POST_DELETED" /\ ~deleter.audit[i].success
\* C26: while a poll cycle is in progress no second one starts: the posts the
\* cycle read stay the posts it works on, the batch only loses its head, and
\* jobs are added only for the post the cycle is handling.
C26_OnePollCycle ==
  [][isProcessing
       => /\ \/ poller'.pc = "idle"
             \/ /\ poller'.found = poller.found
                /\ poller'.batch \in {poller.batch, Tail(poller.batch)}
          /\ Len(queue') > Len(queue)
               => /\ poller.pc = "add"
                  /\ queue'[Len(queue')].id = Current.id]_vars

\* a cycle is in progress while the table holds due posts that an invocation
\* starting now would read as another batch
C26_Witness ==
  /\ isProcessing
  /\ find(posts, now) # <<>>
  /\ find(posts, now) # poller.found

\* C27: the step on which addPublishJob raises for a post changes neither the
\* table nor the queue and goes on to the next post, and when the cycle ends
\* every post it read whose addPublishJob raised has the status it was read
\* with, while every other post it read and did not skip is PROCESSING and
\* has a job.
C27_ThrowSparesTheRest ==
  [][/\ (poller.pc = "add" /\ poller'.threw \ poller.threw # {})
        => /\ posts' = posts
           /\ queue' = queue
           /\ poller'.pc = "add"
           /\ poller'.batch = Tail(poller.batch)
     /\ (isProcessing /\ poller'.pc = "idle" /\ CanSave')
        => /\ poller.pc = "add" => posts' = posts
           /\ \A i \in DOMAIN poller.found :
                LET e == poller.found[i]
                IN IF e.id \in poller.threw
                     THEN posts'[e.id].status = e.row.status
                     ELSE (~SkipPost(e.row)
                             /\ ~(poller.pc = "add" /\ e.id = Current.id))
                          => /\ posts'[e.id].status = PROCESSING
                             /\ HasJob(queue', e.id)]_vars

\* addPublishJob raised for a post of the cycle and a later post of the
\* batch has its job and is about to be set to PROCESSING
C27_Witness ==
  /\ poller.pc = "save"
  /\ poller.threw # {}
  /\ HasJob(queue, Current.id)
  /\ \A p \in poller.threw : posts[p].status \in {PENDING, FAILED}

\* C28: a poll cycle reads only posts that are PENDING or FAILED and due, at
\* most batchSize of them, earliest scheduledAt first, and when it sets a post
\* to PROCESSING the queue holds a job of that post with
\* attemptNumber = attempts + 1.
C28_DispatchesDuePostsWithNextAttempt ==
  [][/\ (~isProcessing /\ poller' # poller)
        => /\ Len(poller'.batch) <= BatchSize
           /\ \A i \in DOMAIN poller'.batch :
                LET e == poller'.batch[i]
                IN /\ e.row.status \in {PENDING, FAILED}
                   /\ e.row.scheduledAt <= now
                   /\ \A j \in DOMAIN poller'.batch :
                        i < j => e.row.scheduledAt <= poller'.batch[j].row.scheduledAt
     /\ (poller.pc = "save" /\ poller' # poller)
        => \E i \in DOMAIN queue :
             /\ queue[i].id = Current.id
             /\ queue[i].attemptNumber = Current.row.attempts + 1]_vars

\* the step removes the row
Deleted(p) == posts[p].exists /\ ~posts'[p].exists

Old(row) ==
  /\ row.status = COMPLETED
  /\ row.publishedAt # Null
  /\ row.publishedAt < now - RetentionDays

\* C29 as stated: a row leaves the table only when it is COMPLETED and was
\* published more than 30 days ago.
C29_OnlyCleanupDeletes ==
  [][\A p \in RowIds : Deleted(p) => Old(posts[p])]_vars

\* C29: while the account stays, a row leaves the table only when it is
\* COMPLETED and was published more than 30 days ago; the other rows leave it
\* only with their account, all at once.
C29_CleanupDeletesOnlyOld ==
  [][\A p \in RowIds :
       Deleted(p) => \/ acct' = acct /\ Old(posts[p])
                     \/ /\ acct' = "gone"
                        /\ \A r \in RowIds : ~posts'[r].exists]_vars

\* cleanupOldJobs has deleted a row while the table holds a COMPLETED row
\* published exactly 30 days ago
C29_Witness ==
  /\ acct = "linked"
  /\ \E p \in RowIds : ~posts[p].exists /\ writer[p] = "cleanup"
  /\ \E p \in RowIds :
       /\ posts[p].exists
       /\ posts[p].status = COMPLETED
       /\ posts[p].publishedAt = now - RetentionDays

\* C30: when every request carries the same Idempotency-Key the table holds
\* at most one post and the queue at most one publish job, and every
\* createPost answers with the post the first one created.
C30_SameKeyOnePost ==
  /\ Cardinality({p \in RowIds : posts[p].exists}) <= 1
  /\ Len(queue) <= 1
  /\ (api.op = "create" /\ api.pc \in {"add", "done"}) => api.id = 1

C32_ProcessingHasLiveJob ==
  \A p \in PostIds :
    (posts[p].exists /\ posts[p].status = PROCESSING)
    => JobsOf(queue, p, Live) >= 1

\* a post that needs nothing more: published, or failed on its last attempt
Terminal(row) ==
  \/ row.status = COMPLETED
  \/ row.status = FAILED /\ row.attempts >= MaxAttempts

\* C33: under fair scheduling of the poller, the queue and the worker every
\* post that is not cancelled is eventually COMPLETED, or FAILED with
\* attempts at the maximum.
C33_EveryPostTerminates ==
  \A p \in PostIds :
    (posts[p].exists /\ posts[p].status # CANCELLED) ~> Terminal(posts[p])

\* C34: handlePublish is run at most 3 times for a post, the retries of a
\* job and the jobs of a re-dispatch by the poller counted together.
C34_AtMostThreeExecutions ==
  \A p \in PostIds : executions[p] <= QueueAttempts

\* the step is an error of item k inside handleDelete
FailsItem(k) ==
  /\ bulk.pc = "batch" /\ k \in DOMAIN bulk.items
  /\ bulk.items[k] \in {"account", "api"}
  /\ bulk' # bulk
  /\ bulk'.items[k] \notin {"api", "remove"}
  /\ \A j \in DOMAIN bulk.items \ {k} : bulk'.items[j] = bulk.items[j]

\* C35: an item that fails does not fail handleBulkDelete: the step enters
\* the item with the message of its own error in the failed list and the
\* job goes on, and the job ends only by returning its summary of all items.
C35_ItemFailureDoesNotFailJob ==
  [][/\ \A k \in 1..DeleteBatchSize :
          FailsItem(k)
          => /\ bulk'.pc = "batch"
             /\ bulk'.successful = bulk.successful
             /\ bulk'.failed =
                  Append(bulk.failed,
                         [postId |-> ItemId(k),
                          error |-> IF bulk.items[k] = "account"
                                      THEN "Account or credentials not found"
                                      ELSE "Threads API error"])
     /\ (bulk.pc # "idle" /\ bulk'.pc = "idle") => bulk.pc = "returned"
     /\ bulk'.pc = "returned"
          => Len(bulk'.successful) + Len(bulk'.failed) = Len(bulk'.postIds)]_vars

\* a job of two batches has returned with every deletion failed
C35_Witness ==
  /\ bulk.pc = "returned"
  /\ Len(bulk.postIds) > DeleteBatchSize
  /\ Len(bulk.failed) = Len(bulk.postIds)
  /\ \A i \in DOMAIN bulk.failed : bulk.failed[i].error = "Threads API error"

\* C36: the deletions in flight are those of one slice of at most 5
\* identities, the next slice starts only when every deletion of the running
\* one has finished, and the progress reported never decreases and is 100
\* when the job of a non-empty list returns.
C36_BatchesOfFive ==
  [][/\ bulk'.pc = "batch"
          => /\ Len(bulk'.items) <= DeleteBatchSize
             /\ Len(bulk'.items) = Len(Slice(bulk'.postIds, bulk'.i))
             /\ bulk'.i % DeleteBatchSize = 0
     /\ (bulk.pc # "idle" /\ bulk'.pc # "idle" /\ bulk'.i # bulk.i)
          => /\ \A k \in DOMAIN bulk.items : bulk.items[k] \in Finished
             /\ bulk'.i = bulk.i + DeleteBatchSize
     /\ (bulk.pc # "idle" /\ bulk'.pc # "idle")
          => bulk'.progress >= bulk.progress
     /\ (bulk'.pc = "returned" /\ bulk'.postIds # <<>>)
          => bulk'.progress = 100]_vars

\* the second batch is running with a deletion in flight, after the
\* progress of the first batch has been reported
C36_Witness ==
  /\ bulk.pc = "batch"
  /\ bulk.i = DeleteBatchSize
  /\ bulk.progress > 0 /\ bulk.progress < 100
  /\ \E k \in DOMAIN bulk.items : bulk.items[k] \notin Finished

\* C37: an item of a bulk job is reported failed for an error of the
\* external delete call only after the call has been made again for it, that
\* is after the call has raised more than once.
C37_BulkItemRetried ==
  \A k \in DOMAIN bulk.items :
    (bulk.items[k] = "failed" /\ bulk.failedCalls[k] >= 1)
    => bulk.failedCalls[k] >= 2

\* C38: a poll cycle that has taken the guard gives it back: whenever
\* isProcessing is set it is cleared again.
C38_GuardReleased == isProcessing ~> ~isProcessing

\* the guard is free after a cycle that dispatched a post, and a post is due
\* for the next tick
C38_Witness ==
  /\ ~isProcessing
  /\ \E p \in RowIds : writer[p] = "poller"
  /\ find(posts, now) # <<>>

\* C39: when an updatePost of a SCHEDULED post has succeeded, whatever of
\* content, media and schedule it changed, the post's waiting or delayed
\* publish job carries the text and the media references stored in the row
\* and, being delayed, is due at the row's scheduledAt.
C39_JobCarriesStoredPost ==
  \A i \in DOMAIN queue :
    (/\ api.op = "update" /\ api.pc = "done" /\ api.result = "ok"
     /\ posts[api.id].exists /\ posts[api.id].status = SCHEDULED
     /\ queue[i].id = api.id /\ queue[i].state \in Queued)
    => /\ queue[i].text = posts[api.id].text
       /\ queue[i].mediaRefs = posts[api.id].mediaRefs
       /\ queue[i].state = "delayed" => queue[i].runAt = posts[api.id].scheduledAt

Spec == Init /\ [][Next]_vars

SpecDelete == InitDelete /\ [][NextDelete]_vars

\* the clock runs, a request that began runs to its end, the cron fires and
\* a started cycle goes through its batch, Bull hands every runnable job to
\* the processor and a started handlePublish runs to its end
SpecLive ==
  /\ Init /\ [][NextLive]_vars
  /\ WF_vars(Tick)
  /\ WF_vars(CreatePostAdd \/ ApiReturn)
  /\ WF_vars(PollStart)
  /\ WF_vars(PollAdd \/ PollSave)
  /\ WF_vars(\E i \in DOMAIN queue : WorkerTakeCounted(i))
  /\ WF_vars(WorkerFind \/ WorkerSaveProcessing \/ WorkerFindAccount
               \/ WorkerSaveCompleted \/ WorkerReturn \/ WorkerCatchFind
               \/ WorkerCatchSave \/ WorkerCatchAudit \/ WorkerThrow)
SpecIdempotency == Init /\ [][NextIdempotency]_vars
SpecUpdate == Init /\ [][NextUpdate]_vars
SpecScheduler == InitScheduler /\ [][NextScheduler]_vars
\* every await of a started cycle settles
SpecSchedulerFair ==
  SpecScheduler /\ WF_vars(PollAdd \/ PollAddThrows \/ PollSave)
SpecSingleDelete == InitDelete /\ [][NextSingleDelete]_vars

SpecVault == Init /\ [][NextVault]_vars

SpecCredential == Init /\ [][NextCredential]_vars

SpecMonitor == InitMonitor /\ [][NextMonitor]_vars
====
